---- MODULE Spec2Model ----
(***************************************************************************)
(* Model of PolymarketGammaClient (client.ts): the Field Normalizer        *)
(* (parseJsonFields), the query construction and the timeout-bounded       *)
(* request of the Request Executor (request / post), and the accessors'    *)
(* identifier dispatch.                                                    *)
(*                                                                         *)
(* Strings are sequences of one-character strings, so that includes,       *)
(* startsWith, JSON.parse and JSON.stringify are computed character by     *)
(* character.  JavaScript values are tagged records:                       *)
(*   [t |-> "undef"]  [t |-> "null"]  [t |-> "bool", b |-> BOOLEAN]        *)
(*   [t |-> "num", n |-> Nat]         [t |-> "str", s |-> chars]           *)
(*   [t |-> "arr", a |-> <<values>>]                                       *)
(*   [t |-> "obj", o |-> << [k |-> chars, v |-> value], ... >>]            *)
(* An object keeps its entries in property order (Object.entries order).   *)
(***************************************************************************)
EXTENDS Integers, Sequences, FiniteSets, TLC

\* ------------------------------------------------------------------ bounds

\* longest arbitrary character string tried as a target-field value
MaxStrLen == 3

\* longest identifier handed to an accessor
MaxIdLen == 3

\* number of keys of a parameter mapping
MaxParams == 2

\* number of concurrent calls on one client
NumCalls == 2

\* ------------------------------------------------------------ JS values

JUndef == [t |-> "undef"]

JNull == [t |-> "null"]

JBool(b) == [t |-> "bool", b |-> b]

JNum(n) == [t |-> "num", n |-> n]

JStr(s) == [t |-> "str", s |-> s]

JArr(a) == [t |-> "arr", a |-> a]

JObj(o) == [t |-> "obj", o |-> o]

Entry(k, v) == [k |-> k, v |-> v]

\* typeof value === 'object' && value (null excluded)
IsObjectLike(v) == v.t \in {"arr", "obj"}

\* --------------------------------------------------------- string helpers

\* String.prototype.includes for a one-character needle
Includes(s, c) == \E i \in 1..Len(s) : s[i] = c

\* String.prototype.startsWith for a one-character prefix
StartsWith(s, c) == Len(s) >= 1 /\ s[1] = c

\* all strings over alphabet A of length lo..hi
StringsOver(A, lo, hi) == UNION {[1..n -> A] : n \in lo..hi}

\* the proper, non-empty prefixes of s
ProperPrefixes(s) == {SubSeq(s, 1, n) : n \in 1..(Len(s) - 1)}

\* ------------------------------------------------------ String(value)

DigitChars == <<"0", "1", "2", "3", "4", "5", "6", "7", "8", "9">>

Digits == {DigitChars[i] : i \in 1..10}

DigitVal(c) == (CHOOSE i \in 1..10 : DigitChars[i] = c) - 1

\* Number.prototype.toString for a non-negative integer
RECURSIVE NumToString(_)
NumToString(n) ==
    IF n < 10 THEN <<DigitChars[n + 1]>>
    ELSE NumToString(n \div 10) \o <<DigitChars[(n % 10) + 1]>>

S_true == <<"t", "r", "u", "e">>

S_false == <<"f", "a", "l", "s", "e">>

S_null == <<"n", "u", "l", "l">>

S_undefined == <<"u", "n", "d", "e", "f", "i", "n", "e", "d">>

S_objectObject ==
    <<"[", "o", "b", "j", "e", "c", "t", " ", "O", "b", "j", "e", "c", "t", "]">>

\* String(value): Array.prototype.toString joins the elements' string forms
\* with ",", rendering undefined and null elements as the empty string.
RECURSIVE StringOf(_)
RECURSIVE JoinComma(_)
JoinComma(a) ==
    IF a = <<>> THEN <<>>
    ELSE LET h == Head(a)
             hs == IF h.t \in {"undef", "null"} THEN <<>> ELSE StringOf(h)
         IN  IF Len(a) = 1 THEN hs ELSE hs \o <<",">> \o JoinComma(Tail(a))

StringOf(v) ==
    CASE v.t = "undef" -> S_undefined
      [] v.t = "null"  -> S_null
      [] v.t = "bool"  -> IF v.b THEN S_true ELSE S_false
      [] v.t = "num"   -> NumToString(v.n)
      [] v.t = "str"   -> v.s
      [] v.t = "arr"   -> JoinComma(v.a)
      [] v.t = "obj"   -> S_objectObject

\* ----------------------------------------------------------- JSON.stringify

\* a JSON string literal: quotes and backslashes are escaped
RECURSIVE EscapeChars(_)
EscapeChars(s) ==
    IF s = <<>> THEN <<>>
    ELSE (IF Head(s) \in {"\"", "\\"} THEN <<"\\", Head(s)>> ELSE <<Head(s)>>)
         \o EscapeChars(Tail(s))

Quote(s) == <<"\"">> \o EscapeChars(s) \o <<"\"">>

\* JSON.stringify of a value: an undefined array element is written as null,
\* an object entry whose value is undefined is left out.
RECURSIVE JSONStringify(_)
RECURSIVE StringifyElems(_)
RECURSIVE StringifyMembers(_, _)
StringifyElems(a) ==
    IF a = <<>> THEN <<>>
    ELSE LET h == IF Head(a).t = "undef" THEN S_null ELSE JSONStringify(Head(a))
         IN  IF Len(a) = 1 THEN h ELSE h \o <<",">> \o StringifyElems(Tail(a))

StringifyMembers(o, first) ==
    IF o = <<>> THEN <<>>
    ELSE IF Head(o).v.t = "undef" THEN StringifyMembers(Tail(o), first)
    ELSE (IF first THEN <<>> ELSE <<",">>)
         \o Quote(Head(o).k) \o <<":">> \o JSONStringify(Head(o).v)
         \o StringifyMembers(Tail(o), FALSE)

JSONStringify(v) ==
    CASE v.t = "null"  -> S_null
      [] v.t = "bool"  -> IF v.b THEN S_true ELSE S_false
      [] v.t = "num"   -> NumToString(v.n)
      [] v.t = "str"   -> Quote(v.s)
      [] v.t = "arr"   -> <<"[">> \o StringifyElems(v.a) \o <<"]">>
      [] v.t = "obj"   -> <<"{">> \o StringifyMembers(v.o, TRUE) \o <<"}">>

\* --------------------------------------------------------------- JSON.parse
\* A recursive-descent parser over the characters of the text.  It covers
\* the JSON grammar of the texts the model feeds it: whitespace (space),
\* null / true / false, non-negative integer literals (no sign, fraction or
\* exponent), string literals with the escapes \" \\ \/ , arrays and
\* objects.  A result is [ok, val, pos]: pos is the index after the value.

ParseFail == [ok |-> FALSE, val |-> JNull, pos |-> 0]

ParseOk(v, p) == [ok |-> TRUE, val |-> v, pos |-> p]

At(s, i) == IF i >= 1 /\ i <= Len(s) THEN s[i] ELSE "EOF"

RECURSIVE SkipWs(_, _)
SkipWs(s, i) == IF At(s, i) = " " THEN SkipWs(s, i + 1) ELSE i

HasWord(s, i, w) == i + Len(w) - 1 <= Len(s) /\ SubSeq(s, i, i + Len(w) - 1) = w

\* s[i] is the character after the opening quote
RECURSIVE ParseChars(_, _, _)
ParseChars(s, i, acc) ==
    LET c == At(s, i) IN
    IF c = "EOF" THEN ParseFail
    ELSE IF c = "\"" THEN ParseOk(JStr(acc), i + 1)
    ELSE IF c = "\\"
         THEN IF At(s, i + 1) \in {"\"", "\\", "/"}
              THEN ParseChars(s, i + 2, Append(acc, s[i + 1]))
              ELSE ParseFail
    ELSE ParseChars(s, i + 1, Append(acc, c))

RECURSIVE ParseDigits(_, _, _)
ParseDigits(s, i, acc) ==
    IF At(s, i) \in Digits
    THEN ParseDigits(s, i + 1, 10 * acc + DigitVal(s[i]))
    ELSE ParseOk(JNum(acc), i)

\* a literal 0 is a whole number on its own: a digit after it is left over
ParseNumber(s, i) ==
    IF s[i] = "0" THEN ParseOk(JNum(0), i + 1) ELSE ParseDigits(s, i, 0)

\* object construction by JSON.parse: a repeated key keeps its first
\* position and takes the last value
RECURSIVE ObjDefine(_, _, _)
ObjDefine(o, k, v) ==
    IF o = <<>> THEN <<Entry(k, v)>>
    ELSE IF Head(o).k = k THEN <<Entry(k, v)>> \o Tail(o)
    ELSE <<Head(o)>> \o ObjDefine(Tail(o), k, v)

RECURSIVE ParseValue(_, _)
RECURSIVE ParseElements(_, _, _)
RECURSIVE ParseMembers(_, _, _)
ParseElements(s, i, acc) ==
    LET r == ParseValue(s, i)
        j == SkipWs(s, r.pos)
    IN  IF ~r.ok THEN ParseFail
        ELSE IF At(s, j) = "," THEN ParseElements(s, SkipWs(s, j + 1), Append(acc, r.val))
        ELSE IF At(s, j) = "]" THEN ParseOk(JArr(Append(acc, r.val)), j + 1)
        ELSE ParseFail

ParseMembers(s, i, acc) ==
    LET k == IF At(s, i) = "\"" THEN ParseChars(s, i + 1, <<>>) ELSE ParseFail
        c == SkipWs(s, k.pos)
        r == IF k.ok /\ At(s, c) = ":" THEN ParseValue(s, SkipWs(s, c + 1)) ELSE ParseFail
        j == SkipWs(s, r.pos)
        o == ObjDefine(acc, k.val.s, r.val)
    IN  IF ~r.ok THEN ParseFail
        ELSE IF At(s, j) = "," THEN ParseMembers(s, SkipWs(s, j + 1), o)
        ELSE IF At(s, j) = "}" THEN ParseOk(JObj(o), j + 1)
        ELSE ParseFail

ParseValue(s, i) ==
    LET c == At(s, i) IN
    CASE c = "[" ->
            (LET j == SkipWs(s, i + 1)
             IN  IF At(s, j) = "]" THEN ParseOk(JArr(<<>>), j + 1)
                 ELSE ParseElements(s, j, <<>>))
      [] c = "{" ->
            (LET j == SkipWs(s, i + 1)
             IN  IF At(s, j) = "}" THEN ParseOk(JObj(<<>>), j + 1)
                 ELSE ParseMembers(s, j, <<>>))
      [] c = "\"" -> ParseChars(s, i + 1, <<>>)
      [] c \in Digits -> ParseNumber(s, i)
      [] c = "t" -> IF HasWord(s, i, S_true) THEN ParseOk(JBool(TRUE), i + 4) ELSE ParseFail
      [] c = "f" -> IF HasWord(s, i, S_false) THEN ParseOk(JBool(FALSE), i + 5) ELSE ParseFail
      [] c = "n" -> IF HasWord(s, i, S_null) THEN ParseOk(JNull, i + 4) ELSE ParseFail
      [] OTHER -> ParseFail

\* JSON.parse(text): ok = FALSE stands for the SyntaxError it throws
JSONParse(s) ==
    LET r == ParseValue(s, SkipWs(s, 1))
    IN  IF r.ok /\ SkipWs(s, r.pos) = Len(s) + 1 THEN r ELSE ParseFail

\* ------------------------------------------------------ Field Normalizer

K_outcomes == <<"o", "u", "t", "c", "o", "m", "e", "s">>

K_outcome_prices ==
    <<"o", "u", "t", "c", "o", "m", "e", "_", "p", "r", "i", "c", "e", "s">>

K_outcomePrices ==
    <<"o", "u", "t", "c", "o", "m", "e", "P", "r", "i", "c", "e", "s">>

K_clob_token_ids ==
    <<"c", "l", "o", "b", "_", "t", "o", "k", "e", "n", "_", "i", "d", "s">>

K_clobTokenIds ==
    <<"c", "l", "o", "b", "T", "o", "k", "e", "n", "I", "d", "s">>

K_uma_resolution_statuses ==
    <<"u", "m", "a", "_", "r", "e", "s", "o", "l", "u", "t", "i", "o", "n", "_", "s", "t", "a", "t", "u", "s", "e", "s">>

K_umaResolutionStatuses ==
    <<"u", "m", "a", "R", "e", "s", "o", "l", "u", "t", "i", "o", "n", "S", "t", "a", "t", "u", "s", "e", "s">>

K_id == <<"i", "d">>

K_markets == <<"m", "a", "r", "k", "e", "t", "s">>

K_data == <<"d", "a", "t", "a">>

K_question == <<"q", "u", "e", "s", "t", "i", "o", "n">>

K_proto == <<"_", "_", "p", "r", "o", "t", "o", "_", "_">>

\* the list with the snake_case spellings only
jsonStringFields_snakeOnly ==
    {K_outcomes, K_outcome_prices, K_clob_token_ids, K_uma_resolution_statuses}

\* the target-field list, in both spellings
jsonStringFields ==
    { K_outcomes, K_outcome_prices, K_outcomePrices, K_clob_token_ids,
      K_clobTokenIds, K_uma_resolution_statuses, K_umaResolutionStatuses }

\* parsed[key] = value on an object literal: an ordinary property is created
\* or overwritten in place; the key __proto__ reaches the prototype setter
\* and creates no own property.
ObjAssign(parsed, key, value) ==
    IF key = K_proto THEN parsed ELSE ObjDefine(parsed, key, value)

\* a catch block that drops the value instead of keeping the string
TryParse_dropOnFailure(value) ==
    LET r == JSONParse(value.s) IN IF r.ok THEN r.val ELSE JNull

\* try { JSON.parse(value) } catch { value }
TryParse(value) ==
    LET r == JSONParse(value.s) IN IF r.ok THEN r.val ELSE value

\* the test that selects a candidate field
IsCandidate(key, value) ==
    key \in jsonStringFields /\ value.t = "str" /\ StartsWith(value.s, "[")

RECURSIVE parseJsonFields(_)
RECURSIVE MapFields(_)
RECURSIVE LoopEntries(_, _)
\* a map that gives up at the first record whose candidate does not parse
RECURSIVE MapFields_untilFailure(_)
MapFields_untilFailure(a) ==
    IF a = <<>> THEN <<>>
    ELSE IF Head(a).t = "obj" /\ \E i \in 1..Len(Head(a).o) :
               /\ IsCandidate(Head(a).o[i].k, Head(a).o[i].v)
               /\ ~JSONParse(Head(a).o[i].v.s).ok
         THEN a
         ELSE <<parseJsonFields(Head(a))>> \o MapFields_untilFailure(Tail(a))

\* data.map((item) => this.parseJsonFields(item))
MapFields(a) ==
    IF a = <<>> THEN <<>> ELSE <<parseJsonFields(Head(a))>> \o MapFields(Tail(a))

\* for (const [key, value] of Object.entries(data)) { ... }
LoopEntries(entries, parsed) ==
    IF entries = <<>> THEN parsed
    ELSE LET key == Head(entries).k
             value == Head(entries).v
             out == IF IsCandidate(key, value) THEN TryParse(value)
                    ELSE IF IsObjectLike(value) THEN parseJsonFields(value)
                    ELSE value
         IN  LoopEntries(Tail(entries), ObjAssign(parsed, key, out))

parseJsonFields(data) ==
    IF ~IsObjectLike(data) THEN data
    ELSE IF data.t = "arr" THEN JArr(MapFields(data.a))
    ELSE JObj(LoopEntries(data.o, <<>>))

\* ------------------------------------------------- response bodies tried

T_YesNo ==
    <<"[", "\"", "Y", "e", "s", "\"", ",", "\"", "N", "o", "\"", "]">>

T_YesNoSpaced ==
    <<"[", "\"", "Y", "e", "s", "\"", ",", " ", "\"", "N", "o", "\"", "]">>

T_Prices ==
    <<"[", " ", "\"", "0", ".", "5", "\"", " ", ",", " ", "\"", "0", ".", "5", "\"", " ", "]">>

T_Nums == <<"[", "1", ",", "2", "0", "]">>

T_Inner == <<"[", "1", "]">>

T_Nested ==
    <<"[", "{", "\"", "o", "u", "t", "c", "o", "m", "e", "s", "\"", ":", "\"", "[", "1", "]", "\"", "}", "]">>

T_Mixed ==
    <<"[", "n", "u", "l", "l", ",", "t", "r", "u", "e", ",", "[", "]", ",", "\"", "[", "1", "]", "\"", "]">>

T_Leading == <<" ", "[", "1", "]">>

T_Trailing == <<"[", "1", "]", "]">>

T_Object ==
    <<"{", "\"", "o", "u", "t", "c", "o", "m", "e", "s", "\"", ":", "\"", "[", "1", "]", "\"", "}">>

T_Unquoted == <<"[", "Y", "e", "s", "]">>

\* texts written by hand, as the API and the tests spell them
SampleTexts ==
    { T_YesNo, T_YesNoSpaced, T_Prices, T_Nums, T_Inner, T_Nested, T_Mixed,
      T_Leading, T_Trailing, T_Object, T_Unquoted }

\* values whose JSON.stringify text the API may put into a field
SampleValues ==
    { JArr(<<>>), JArr(<<JStr(<<"A">>), JStr(<<"B">>), JStr(<<"C">>)>>),
      JArr(<<JArr(<<JNum(1)>>), JNum(2)>>),
      JArr(<<JObj(<<Entry(K_id, JNum(7)), Entry(K_clobTokenIds, JStr(T_Nums))>>)>>),
      JStr(T_Inner), JNum(5) }

TextAlphabet == {"[", "]", "1", ",", "\"", " "}

\* every string value the bodies carry: sample texts, their truncations and
\* all short strings over TextAlphabet
FieldTexts ==
    LET whole == SampleTexts \cup {JSONStringify(v) : v \in SampleValues}
    IN  whole \cup UNION {ProperPrefixes(s) : s \in whole}
              \cup StringsOver(TextAlphabet, 0, MaxStrLen)

OtherKeys == {K_id, K_markets, K_question, K_proto}

FieldKeys == jsonStringFields \cup OtherKeys

NonStringValues ==
    { JNull, JBool(TRUE), JNum(1), JArr(<<JStr(T_Inner)>>),
      JObj(<<Entry(K_outcomes, JStr(T_Inner))>>) }

\* records of one field
SingleRecords ==
    {JObj(<<Entry(k, v)>>) :
        k \in FieldKeys, v \in {JStr(s) : s \in FieldTexts} \cup NonStringValues}

SmallEntries ==
    {Entry(k, JStr(s)) :
        k \in {K_outcomes, K_clobTokenIds, K_question},
        s \in {T_YesNoSpaced, T_Nested, T_Inner, <<"[", "1", ",", "2">>}}

\* records of two fields: a candidate next to an ordinary field
PairRecords ==
    {JObj(<<Entry(K_id, JStr(<<"1">>)), e>>) : e \in SmallEntries}
    \cup {JObj(<<e, Entry(K_outcomePrices, JStr(s))>>) :
            e \in SmallEntries \ {x \in SmallEntries : x.k = K_outcomePrices},
            s \in {T_Prices, <<"[", "\"", "0">>}}

SmallRecords ==
    {JObj(<<Entry(K_id, JNum(1)), Entry(K_outcomes, JStr(s))>>) :
        s \in {T_YesNo, T_Nested, <<"[", "1", ",", "2">>}}
    \cup {JObj(<<>>)}

\* list responses and paginated responses (data[i].markets[j])
ListBodies ==
    {JArr(<<>>)} \cup {JArr(<<r>>) : r \in SmallRecords}
    \cup {JArr(<<r1, r2>>) : r1 \in SmallRecords, r2 \in SmallRecords}

NestedBodies ==
    {JObj(<<Entry(K_data, JArr(<<JObj(<<Entry(K_markets, JArr(<<r>>))>>)>>))>>) :
        r \in SmallRecords}

PrimitiveBodies == {JNull, JBool(FALSE), JNum(0), JStr(T_Inner)}

\* the decoded bodies a transport may hand back
Bodies ==
    SingleRecords \cup PairRecords \cup ListBodies \cup NestedBodies
    \cup PrimitiveBodies

\* ------------------------------------------------- normalization of a body
\* nPc: "idle" before the body arrives, "returned" once request has
\* returned parseJsonFields(data), "again" once that result was itself
\* passed through the normalizer, "second" once the decoded value was
\* handed to the normalizer a second time.  nBody is the decoded value as
\* response.json() gave it, nHeld the same object as it is after the calls
\* made on it, nSecond what the second call on it returned.

VARIABLES nPc, nBody, nResult, nAgain, nHeld, nSecond

normVars == <<nPc, nBody, nResult, nAgain, nHeld, nSecond>>

\* One accessor invocation up to the transport call: uOp is the accessor,
\* uArg its identifier argument, uParams its parameter mapping; uMethod,
\* uEndpoint, uQuery and uBody are what request / post hand to fetchFn.
VARIABLES uPc, uOp, uArg, uParams, uMethod, uEndpoint, uQuery, uBody

\* uUrl is the address and uHeaders the header mapping handed to fetchFn;
\* uData is the body response.json() decoded to and uResult how the promise
\* the accessor returned has settled; uFetchFn is the function that was
\* invoked as the transport.
VARIABLES uUrl, uHeaders, uData, uResult, uFetchFn

urlVars ==
    <<uPc, uOp, uArg, uParams, uMethod, uEndpoint, uQuery, uBody,
      uUrl, uHeaders, uData, uResult, uFetchFn>>

\* The calls in flight on one client, indexed by call: cPc is the call's
\* position in request / post, cMethod whether it runs request (GET) or post
\* (POST), cTransport what the injected transport does with it, cTimer the state of its setTimeout timer, cAborted its
\* controller.signal.aborted, cResponse the response fetchFn resolved with,
\* cOutcome how the promise returned to the caller has settled, cFetches
\* the number of fetchFn invocations made for it.  tHonors: the transport
\* injected at construction reacts to the cancellation signal.
VARIABLES tHonors, cPc, cMethod, cTransport, cTimer, cAborted, cResponse, cOutcome, cFetches

\* What has been done for each call so far: cDecodes the number of
\* response.json() invocations, cNormalizes the number of parseJsonFields
\* invocations on its decoded body, cRejection the failure value the
\* transport rejected the awaited promise with (NoRejection while it has not),
\* cFetchFn the function that was invoked as its transport.
VARIABLES cDecodes, cNormalizes, cRejection, cFetchFn

callVars ==
    <<tHonors, cPc, cMethod, cTransport, cTimer, cAborted, cResponse, cOutcome, cFetches,
      cDecodes, cNormalizes, cRejection, cFetchFn>>

\* The client configuration kept by the constructor: baseUrl, customHeaders
\* and fetchFn are the private fields of the same names (the timeout field
\* is the delay of each call's timer, which runs at any moment).
VARIABLES baseUrl, customHeaders, fetchFn

\* What surrounds the client: givenConfig is the configuration as it was
\* when the constructor received it, callerHeaders the header mapping the
\* caller passed (JUndef when it passed none) as it is now, globalFetch the
\* function globalThis.fetch names now.
VARIABLES givenConfig, callerHeaders, globalFetch

cfgVars == <<baseUrl, customHeaders, fetchFn, givenConfig, callerHeaders, globalFetch>>

vars == <<normVars, urlVars, callVars, cfgVars>>

InitNorm ==
    /\ nPc = "idle"
    /\ nBody = JUndef
    /\ nResult = JUndef
    /\ nAgain = JUndef
    /\ nHeld = JUndef
    /\ nSecond = JUndef

\* a normalizer that decodes the target fields of data in place
DataAfter_inPlace(data) == parseJsonFields(data)

\* data as parseJsonFields leaves it: the assignments of the function all
\* have parsed, the object literal it creates, as their target, and data.map
\* returns a new array, so that no statement writes to data or to a value
\* reached from it
DataAfter(data) == data

\* const data = await response.json(); return this.parseJsonFields(data)
RequestReturn(body) ==
    /\ nPc = "idle"
    /\ nPc' = "returned"
    /\ nBody' = body
    /\ nResult' = parseJsonFields(body)
    /\ nHeld' = DataAfter(body)
    /\ UNCHANGED <<nAgain, nSecond, urlVars, callVars, cfgVars>>

\* the decoded value, as the first call left it, is handed to the
\* normalizer once more
SecondCall ==
    /\ nPc = "returned"
    /\ nPc' = "second"
    /\ nSecond' = parseJsonFields(nHeld)
    /\ nHeld' = DataAfter(nHeld)
    /\ UNCHANGED <<nBody, nResult, nAgain, urlVars, callVars, cfgVars>>

\* the returned value is handed to the normalizer a second time
Renormalize ==
    /\ nPc = "returned"
    /\ nPc' = "again"
    /\ nAgain' = parseJsonFields(nResult)
    /\ UNCHANGED <<nBody, nResult, nHeld, nSecond, urlVars, callVars, cfgVars>>

NextNorm ==
    \/ nPc = "idle" /\ \E body \in Bodies : RequestReturn(body)
    \/ Renormalize
    \/ SecondCall

\* ------------------------------------------------------ query construction

K_limit == <<"l", "i", "m", "i", "t">>

K_tags == <<"t", "a", "g", "s">>

K_order_by == <<"o", "r", "d", "e", "r", "_", "b", "y">>

K_event_slug == <<"e", "v", "e", "n", "t", "_", "s", "l", "u", "g">>

K_market_slug == <<"m", "a", "r", "k", "e", "t", "_", "s", "l", "u", "g">>

\* for (const item of value) url.searchParams.append(key, String(item))
RECURSIVE AppendItems(_, _, _)
AppendItems(query, key, items) ==
    IF items = <<>> THEN query
    ELSE AppendItems(Append(query, Entry(key, StringOf(Head(items)))), key, Tail(items))

\* a test that forgets null
IsPresent_undefinedOnly(value) == value.t # "undef"

\* value !== undefined && value !== null
IsPresent(value) == value.t \notin {"undef", "null"}

\* a loop body without the Array.isArray branch
AppendParam_joined(query, key, value) ==
    IF value.t \notin {"undef", "null"}
    THEN Append(query, Entry(key, StringOf(value)))
    ELSE query

\* the body of the loop over Object.entries(params)
AppendParam(query, key, value) ==
    IF IsPresent(value)
    THEN IF value.t = "arr" THEN AppendItems(query, key, value.a)
         ELSE Append(query, Entry(key, StringOf(value)))
    ELSE query

RECURSIVE LoopParams(_, _)
LoopParams(entries, query) ==
    IF entries = <<>> THEN query
    ELSE LoopParams(Tail(entries), AppendParam(query, Head(entries).k, Head(entries).v))

\* if (params) { ... }: the entries of url.searchParams, in append order;
\* an entry is [k |-> key, v |-> the value's string form]
BuildQuery(params) ==
    IF params.t = "undef" THEN <<>> ELSE LoopParams(params.o, <<>>)

\* ---------------------------------------------------- parameter mappings tried

ParamKeys == {K_limit, K_tags, K_order_by}

ParamValues ==
    { JUndef, JNull, JBool(FALSE), JNum(0), JNum(10), JStr(<<>>), JStr(<<"a">>),
      JArr(<<>>), JArr(<<JStr(<<"b">>), JStr(<<"a">>), JStr(<<"b">>)>>),
      JArr(<<JStr(<<>>), JNum(1)>>), JArr(<<JNull>>) }

\* sequences of n pairwise different keys
KeySeqs(n) == {ks \in [1..n -> ParamKeys] : \A i, j \in 1..n : i # j => ks[i] # ks[j]}

\* an accessor's optional filters: left out, or a mapping of up to MaxParams keys
ParamMappings ==
    {JUndef} \cup
    {JObj([i \in 1..Len(p[1]) |-> Entry(p[1][i], p[2][i])]) :
        p \in UNION {KeySeqs(n) \X [1..n -> ParamValues] : n \in 0..MaxParams}}

IdAlphabet == {"a", "1", "-"}

\* identifiers: numeric ids, slugs with hyphens, and the empty string
Identifiers == StringsOver(IdAlphabet, 0, MaxIdLen)

\* characters that have a meaning of their own in a URL reference
PathChars == {"/", ".", "?", "#"}

\* identifiers as any caller may pass them
AnyIdentifiers == StringsOver(IdAlphabet \cup PathChars, 0, MaxIdLen)

UserAddresses == {<<"0">>, <<"a", "-", "1">>}

\* user addresses as any caller may pass them
AnyUserAddresses == UserAddresses \cup {<<"a", "?", "1">>, <<".", ".">>}

\* -------------------------------------------------------------- endpoints

P_search ==
    <<"/", "p", "u", "b", "l", "i", "c", "-", "s", "e", "a", "r", "c", "h">>

P_markets == <<"/", "m", "a", "r", "k", "e", "t", "s">>

P_events == <<"/", "e", "v", "e", "n", "t", "s">>

P_eventsPagination ==
    <<"/", "e", "v", "e", "n", "t", "s", "/", "p", "a", "g", "i", "n", "a", "t", "i", "o", "n">>

P_tags == <<"/", "t", "a", "g", "s">>

P_teams == <<"/", "t", "e", "a", "m", "s">>

P_sports == <<"/", "s", "p", "o", "r", "t", "s">>

P_series == <<"/", "s", "e", "r", "i", "e", "s">>

P_comments == <<"/", "c", "o", "m", "m", "e", "n", "t", "s">>

P_marketsSlash == <<"/", "m", "a", "r", "k", "e", "t", "s", "/">>

P_marketsSlug ==
    <<"/", "m", "a", "r", "k", "e", "t", "s", "/", "s", "l", "u", "g", "/">>

P_eventsSlash == <<"/", "e", "v", "e", "n", "t", "s", "/">>

P_eventsSlug ==
    <<"/", "e", "v", "e", "n", "t", "s", "/", "s", "l", "u", "g", "/">>

P_tagsSlash == <<"/", "t", "a", "g", "s", "/">>

P_tagsSlug == <<"/", "t", "a", "g", "s", "/", "s", "l", "u", "g", "/">>

P_seriesSlash == <<"/", "s", "e", "r", "i", "e", "s", "/">>

P_commentsSlash == <<"/", "c", "o", "m", "m", "e", "n", "t", "s", "/">>

P_commentsUser ==
    <<"/", "c", "o", "m", "m", "e", "n", "t", "s", "/", "u", "s", "e", "r", "_", "a", "d", "d", "r", "e", "s", "s", "/">>

P_relatedTags ==
    <<"/", "r", "e", "l", "a", "t", "e", "d", "-", "t", "a", "g", "s">>

P_relatedTagsTags ==
    <<"/", "r", "e", "l", "a", "t", "e", "d", "-", "t", "a", "g", "s", "/", "t", "a", "g", "s">>

U_grokEventSummary ==
    <<"h", "t", "t", "p", "s", ":", "/", "/", "p", "o", "l", "y", "m", "a", "r", "k", "e", "t", ".", "c", "o", "m", "/", "a", "p", "i", "/", "g", "r", "o", "k", "/", "e", "v", "e", "n", "t", "-", "s", "u", "m", "m", "a", "r", "y">>

U_grokElection ==
    <<"h", "t", "t", "p", "s", ":", "/", "/", "p", "o", "l", "y", "m", "a", "r", "k", "e", "t", ".", "c", "o", "m", "/", "a", "p", "i", "/", "g", "r", "o", "k", "/", "e", "l", "e", "c", "t", "i", "o", "n", "-", "m", "a", "r", "k", "e", "t", "-", "e", "x", "p", "l", "a", "n", "a", "t", "i", "o", "n">>


\* the value an object holds under a key (undefined when the key is absent)
Lookup(obj, key) ==
    IF \E i \in 1..Len(obj.o) : obj.o[i].k = key
    THEN obj.o[CHOOSE i \in 1..Len(obj.o) : obj.o[i].k = key].v
    ELSE JUndef

\* ------------------------------------------------------- the configuration

\* 'https://gamma-api.polymarket.com'
DefaultBaseUrl ==
    <<"h", "t", "t", "p", "s", ":", "/", "/", "g", "a", "m", "m", "a", "-", "a", "p", "i", ".", "p", "o", "l", "y", "m", "a", "r", "k", "e", "t", ".", "c", "o", "m">>

\* the two transports a client can hold: the platform's fetch and a function
\* passed as config.fetch
PlatformFetch == "globalThis.fetch"

ConfigFetch == "config.fetch"

\* a ?? b
Coalesce(a, b) == IF a = JUndef \/ a = JNull THEN b ELSE a

K_ContentType == <<"C", "o", "n", "t", "e", "n", "t", "-", "T", "y", "p", "e">>

S_applicationJson ==
    <<"a", "p", "p", "l", "i", "c", "a", "t", "i", "o", "n", "/", "j", "s", "o", "n">>

\* this.customHeaders = config.headers ?? {}: the field holds the mapping
\* the caller passed, the same object and not a copy of it, and an object of
\* its own when the caller passed none
HeadersField(given, held) ==
    IF given = JUndef \/ given = JNull THEN <<>> ELSE held.o

\* the state after new PolymarketGammaClient(config); config.fetch is
\* JUndef when the caller passes no transport
Constructor(config) ==
    /\ givenConfig = config
    /\ callerHeaders = config.headers
    /\ globalFetch = PlatformFetch
    /\ baseUrl = Coalesce(config.baseUrl, JStr(DefaultBaseUrl)).s
    /\ fetchFn = IF config.fetch = JUndef THEN globalFetch ELSE config.fetch.s
    /\ customHeaders = HeadersField(config.headers, callerHeaders)

\* the caller sets a header on the mapping it passed to the constructor
MutateHeaders(key, value) ==
    /\ givenConfig.headers # JUndef
    /\ callerHeaders = givenConfig.headers
    /\ callerHeaders' = JObj(ObjDefine(callerHeaders.o, key, value))
    /\ customHeaders' = HeadersField(givenConfig.headers, callerHeaders')
    /\ UNCHANGED <<baseUrl, fetchFn, givenConfig, globalFetch, normVars, urlVars, callVars>>

\* a function that was assigned to globalThis.fetch after construction
PatchedFetch == "patched fetch"

\* globalThis.fetch is replaced; the fetchFn field keeps the function it
\* was given in the constructor
ReplaceGlobalFetch ==
    /\ globalFetch = PlatformFetch
    /\ globalFetch' = PatchedFetch
    /\ UNCHANGED <<baseUrl, customHeaders, fetchFn, givenConfig, callerHeaders,
                   normVars, urlVars, callVars>>

\* new PolymarketGammaClient()
DefaultConfig == [baseUrl |-> JUndef, fetch |-> JUndef, headers |-> JUndef]

\* --------------------------------------------- what is handed to fetchFn

\* { ...a, ...b }: the properties of b are defined over those of a
RECURSIVE Spread(_, _)
Spread(a, b) ==
    IF b = <<>> THEN a ELSE Spread(ObjDefine(a, Head(b).k, Head(b).v), Tail(b))

\* a header mapping in which the baseline is laid over the custom headers
RequestHeaders_baselineLast(custom) ==
    Spread(custom, <<Entry(K_ContentType, S_applicationJson)>>)

\* headers: { 'Content-Type': 'application/json', ...this.customHeaders }
RequestHeaders(custom) ==
    Spread(<<Entry(K_ContentType, S_applicationJson)>>, custom)

\* the position of the n-th '/' of s (0 when s has fewer)
RECURSIVE SlashAt(_, _, _)
SlashAt(s, i, n) ==
    IF i > Len(s) THEN 0
    ELSE IF s[i] = "/" THEN (IF n = 1 THEN i ELSE SlashAt(s, i + 1, n - 1))
    ELSE SlashAt(s, i + 1, n)

\* scheme://host[:port] of an absolute address
Origin(base) ==
    LET p == SlashAt(base, 1, 3) IN IF p = 0 THEN base ELSE SubSeq(base, 1, p - 1)

UnreservedChars ==
    Digits \cup {"a", "b", "c", "d", "e", "f", "g", "h", "i", "j", "k", "l", "m",
                     "n", "o", "p", "q", "r", "s", "t", "u", "v", "w", "x", "y", "z",
                     "A", "B", "C", "D", "E", "F", "G", "H", "I", "J", "K", "L", "M",
                     "N", "O", "P", "Q", "R", "S", "T", "U", "V", "W", "X", "Y", "Z",
                     "*", "-", ".", "_"}

\* the application/x-www-form-urlencoded form of one character, for the
\* characters of the keys and values in use
FormEncodeChar(c) ==
    IF c \in UnreservedChars THEN <<c>>
    ELSE IF c = " " THEN <<"+">>
    ELSE IF c = "," THEN <<"%", "2", "C">>
    ELSE IF c = "/" THEN <<"%", "2", "F">>
    ELSE IF c = "&" THEN <<"%", "2", "6">>
    ELSE IF c = "=" THEN <<"%", "3", "D">>
    ELSE IF c = "+" THEN <<"%", "2", "B">>
    ELSE IF c = "?" THEN <<"%", "3", "F">>
    ELSE IF c = "[" THEN <<"%", "5", "B">>
    ELSE IF c = "]" THEN <<"%", "5", "D">>
    ELSE IF c = "\"" THEN <<"%", "2", "2">>
    ELSE <<"%", "2", "3">>

RECURSIVE FormEncode(_)
FormEncode(s) == IF s = <<>> THEN <<>> ELSE FormEncodeChar(Head(s)) \o FormEncode(Tail(s))

\* url.searchParams serialized: key=value pairs joined by '&'
RECURSIVE SerializeQuery(_)
SerializeQuery(query) ==
    IF query = <<>> THEN <<>>
    ELSE FormEncode(Head(query).k) \o <<"=">> \o FormEncode(Head(query).v)
         \o (IF Tail(query) = <<>> THEN <<>> ELSE <<"&">> \o SerializeQuery(Tail(query)))

\* the index of the first character of s, from index i on, that is in cs
\* (Len(s) + 1 when there is none)
RECURSIVE FirstOf(_, _, _)
FirstOf(s, cs, i) ==
    IF i > Len(s) THEN Len(s) + 1
    ELSE IF s[i] \in cs THEN i
    ELSE FirstOf(s, cs, i + 1)

\* a component of a URL that may be absent (the query, the fragment)
NoPart == [present |-> FALSE, text |-> <<>>]

Part(text) == [present |-> TRUE, text |-> text]

\* the URL parser's "shorten a path": the last segment is removed
ShortenPath(path) == IF path = <<>> THEN path ELSE SubSeq(path, 1, Len(path) - 1)

\* The URL parser's path state over the text between the leading '/' and
\* the first '?' or '#': a segment ends at '/' or at the end of the text; a
\* '..' segment removes the segment before it, a '.' segment is dropped,
\* and either leaves an empty last segment when it ends the text.  The
\* characters of the endpoints in use need no percent-encoding in a path.
RECURSIVE PathState(_, _, _, _)
PathState(s, i, buffer, path) ==
    LET c == At(s, i) IN
    IF c \in {"/", "EOF"}
    THEN LET p == IF buffer = <<".", ".">>
                  THEN (IF c # "/" THEN Append(ShortenPath(path), <<>>)
                        ELSE ShortenPath(path))
                  ELSE IF buffer = <<".">>
                  THEN (IF c # "/" THEN Append(path, <<>>) ELSE path)
                  ELSE Append(path, buffer)
         IN  IF c = "EOF" THEN p ELSE PathState(s, i + 1, <<>>, p)
    ELSE PathState(s, i + 1, Append(buffer, c), path)

\* new URL(endpoint, base) for an endpoint that starts with '/' followed by
\* a letter, as all endpoints of the accessors do: a path-absolute reference.
\* Its path is parsed from the endpoint alone, its query is what follows the
\* first '?' and its fragment what follows the first '#'.
ParseEndpoint(endpoint) ==
    LET stop == FirstOf(endpoint, {"?", "#"}, 1)
        hash == FirstOf(endpoint, {"#"}, 1)
    IN  [path |-> PathState(SubSeq(endpoint, 2, stop - 1), 1, <<>>, <<>>),
         query |-> IF stop <= Len(endpoint) /\ endpoint[stop] = "?"
                   THEN Part(SubSeq(endpoint, stop + 1, hash - 1))
                   ELSE NoPart,
         fragment |-> IF hash <= Len(endpoint)
                      THEN Part(SubSeq(endpoint, hash + 1, Len(endpoint)))
                      ELSE NoPart]

\* the URL path serializer: '/' before every segment
RECURSIVE SerializePath(_)
SerializePath(path) ==
    IF path = <<>> THEN <<>> ELSE <<"/">> \o Head(path) \o SerializePath(Tail(path))

\* the entries url.searchParams starts with: the pieces of the query text
\* between '&', each split at its first '=' (the texts in use hold no '+'
\* and no percent-encoded bytes)
RECURSIVE ParseQueryText(_)
ParseQueryText(q) ==
    IF q = <<>> THEN <<>>
    ELSE LET amp == FirstOf(q, {"&"}, 1)
             piece == SubSeq(q, 1, amp - 1)
             eq == FirstOf(piece, {"="}, 1)
             rest == ParseQueryText(SubSeq(q, amp + 1, Len(q)))
         IN  IF piece = <<>> THEN rest
             ELSE <<Entry(SubSeq(piece, 1, eq - 1), SubSeq(piece, eq + 1, Len(piece)))>>
                  \o rest

\* new URL(endpoint, this.baseUrl) with the appended search parameters, as
\* url.toString() gives it.  The endpoint is resolved against the origin of
\* the base address; an append to url.searchParams rewrites the query of the
\* URL as the serialization of all its entries; the fragment comes last.
UrlToString(endpoint, base, query) ==
    LET u == ParseEndpoint(endpoint)
        q == IF query = <<>> THEN u.query
             ELSE Part(SerializeQuery(ParseQueryText(u.query.text) \o query))
    IN  Origin(base) \o SerializePath(u.path)
            \o (IF q.present THEN <<"?">> \o q.text ELSE <<>>)
            \o (IF u.fragment.present THEN <<"#">> \o u.fragment.text ELSE <<>>)

\* ------------------------------------------------------------ the accessors

InitUrl ==
    /\ uPc = "idle"
    /\ uOp = "none"
    /\ uArg = JUndef
    /\ uParams = JUndef
    /\ uMethod = "none"
    /\ uEndpoint = <<>>
    /\ uQuery = <<>>
    /\ uBody = JUndef
    /\ uUrl = <<>>
    /\ uHeaders = <<>>
    /\ uData = JUndef
    /\ uResult = [kind |-> "pending"]
    /\ uFetchFn = "none"

\* request(endpoint, params) up to the fetchFn call: the endpoint is resolved
\* against the base address and the query entries are appended
request(op, arg, endpoint, params) ==
    /\ uPc = "idle"
    /\ uPc' = "sent"
    /\ uOp' = op
    /\ uArg' = arg
    /\ uParams' = params
    /\ uMethod' = "GET"
    /\ uEndpoint' = endpoint
    /\ uQuery' = BuildQuery(params)
    /\ uBody' = JUndef
    /\ uUrl' = UrlToString(endpoint, baseUrl, BuildQuery(params))
    /\ uHeaders' = RequestHeaders(customHeaders)
    /\ uFetchFn' = fetchFn
    /\ UNCHANGED <<uData, uResult, normVars, callVars, cfgVars>>

\* post(url, body) up to the fetchFn call
post(op, arg, url, body) ==
    /\ uPc = "idle"
    /\ uPc' = "sent"
    /\ uOp' = op
    /\ uArg' = arg
    /\ uParams' = JUndef
    /\ uMethod' = "POST"
    /\ uEndpoint' = url
    /\ uQuery' = <<>>
    /\ uBody' = JStr(JSONStringify(body))
    /\ uUrl' = url
    /\ uHeaders' = RequestHeaders(customHeaders)
    /\ uFetchFn' = fetchFn
    /\ UNCHANGED <<uData, uResult, normVars, callVars, cfgVars>>

\* an accessor without the slug branch
MarketEndpoint_noSlug(idOrSlug) == P_marketsSlash \o idOrSlug

MarketEndpoint(idOrSlug) ==
    IF Includes(idOrSlug, "-") THEN P_marketsSlug \o idOrSlug
    ELSE P_marketsSlash \o idOrSlug

EventEndpoint(idOrSlug) ==
    IF Includes(idOrSlug, "-") THEN P_eventsSlug \o idOrSlug
    ELSE P_eventsSlash \o idOrSlug

TagEndpoint(idOrSlug) == P_tagsSlash \o idOrSlug

RelatedTagsEndpoint(idOrSlug) ==
    IF Includes(idOrSlug, "-") THEN P_tagsSlug \o idOrSlug \o P_relatedTags
    ELSE P_tagsSlash \o idOrSlug \o P_relatedTags

RelatedTagsTagsEndpoint(idOrSlug) ==
    IF Includes(idOrSlug, "-") THEN P_tagsSlug \o idOrSlug \o P_relatedTagsTags
    ELSE P_tagsSlash \o idOrSlug \o P_relatedTagsTags

search(params) == request("search", JUndef, P_search, params)

getMarket(idOrSlug) ==
    request("getMarket", JStr(idOrSlug), MarketEndpoint(idOrSlug), JUndef)

getMarkets(filters) == request("getMarkets", JUndef, P_markets, filters)

getMarketTags(marketId) ==
    request("getMarketTags", JStr(marketId), P_marketsSlash \o marketId \o P_tags, JUndef)

getEvent(idOrSlug) ==
    request("getEvent", JStr(idOrSlug), EventEndpoint(idOrSlug), JUndef)

getEvents(filters) == request("getEvents", JUndef, P_events, filters)

getEventTags(eventId) ==
    request("getEventTags", JStr(eventId), P_eventsSlash \o eventId \o P_tags, JUndef)

getEventsPaginated(filters) ==
    request("getEventsPaginated", JUndef, P_eventsPagination, filters)

getTags(params) == request("getTags", JUndef, P_tags, params)

getTag(idOrSlug) == request("getTag", JStr(idOrSlug), TagEndpoint(idOrSlug), JUndef)

getRelatedTags(idOrSlug) ==
    request("getRelatedTags", JStr(idOrSlug), RelatedTagsEndpoint(idOrSlug), JUndef)

getRelatedTagsTags(idOrSlug) ==
    request("getRelatedTagsTags", JStr(idOrSlug), RelatedTagsTagsEndpoint(idOrSlug), JUndef)

getTeams(params) == request("getTeams", JUndef, P_teams, params)

getSports(params) == request("getSports", JUndef, P_sports, params)

getSeries(params) == request("getSeries", JUndef, P_series, params)

getSeriesById(seriesId) ==
    request("getSeriesById", JStr(seriesId), P_seriesSlash \o seriesId, JUndef)

getComments(params) == request("getComments", JUndef, P_comments, params)

getComment(commentId) ==
    request("getComment", JStr(commentId), P_commentsSlash \o commentId, JUndef)

getCommentsByUser(userAddress, params) ==
    request("getCommentsByUser", JStr(userAddress), P_commentsUser \o userAddress, params)

\* an accessor that posts to a path under the configured base address
grokEventSummary_underBase(eventSlug) ==
    post("grokEventSummary", JStr(eventSlug),
         UrlToString(<<"/", "g", "r", "o", "k">>, baseUrl, <<>>),
         JObj(<<Entry(K_event_slug, JStr(eventSlug))>>))

grokEventSummary(eventSlug) ==
    post("grokEventSummary", JStr(eventSlug), U_grokEventSummary,
         JObj(<<Entry(K_event_slug, JStr(eventSlug))>>))

grokElectionMarketExplanation(marketSlug) ==
    post("grokElectionMarketExplanation", JStr(marketSlug), U_grokElection,
         JObj(<<Entry(K_market_slug, JStr(marketSlug))>>))

NextUrl ==
    \/ uPc = "idle" /\ \E params \in ParamMappings : search(params)
    \/ uPc = "idle" /\ \E id \in AnyIdentifiers : getMarket(id)
    \/ uPc = "idle" /\ \E params \in ParamMappings : getMarkets(params)
    \/ uPc = "idle" /\ \E id \in AnyIdentifiers : getMarketTags(id)
    \/ uPc = "idle" /\ \E id \in AnyIdentifiers : getEvent(id)
    \/ uPc = "idle" /\ \E params \in ParamMappings : getEvents(params)
    \/ uPc = "idle" /\ \E id \in AnyIdentifiers : getEventTags(id)
    \/ uPc = "idle" /\ \E params \in ParamMappings : getEventsPaginated(params)
    \/ uPc = "idle" /\ \E params \in ParamMappings : getTags(params)
    \/ uPc = "idle" /\ \E id \in AnyIdentifiers : getTag(id)
    \/ uPc = "idle" /\ \E id \in AnyIdentifiers : getRelatedTags(id)
    \/ uPc = "idle" /\ \E id \in AnyIdentifiers : getRelatedTagsTags(id)
    \/ uPc = "idle" /\ \E params \in ParamMappings : getTeams(params)
    \/ uPc = "idle" /\ \E params \in ParamMappings : getSports(params)
    \/ uPc = "idle" /\ \E params \in ParamMappings : getSeries(params)
    \/ uPc = "idle" /\ \E id \in AnyIdentifiers : getSeriesById(id)
    \/ uPc = "idle" /\ \E params \in ParamMappings : getComments(params)
    \/ uPc = "idle" /\ \E id \in AnyIdentifiers : getComment(id)
    \/ uPc = "idle" /\ \E a \in AnyUserAddresses, params \in ParamMappings : getCommentsByUser(a, params)
    \/ uPc = "idle" /\ \E id \in AnyIdentifiers : grokEventSummary(id)
    \/ uPc = "idle" /\ \E id \in AnyIdentifiers : grokElectionMarketExplanation(id)

\* ------------------------------------------------ the timeout-bounded call

Calls == 1..NumCalls

S_HTTP == <<"H", "T", "T", "P", " ">>

S_NotFound == <<"N", "o", "t", " ", "F", "o", "u", "n", "d">>

S_OK == <<"O", "K">>

\* What the injected transport does with one call: "respond" resolves with
\* a response whose body can be read, "fail" rejects with a network error,
\* "hang" never settles the fetch promise on its own.  A transport that
\* reacts to the cancellation signal (tHonors) rejects the pending promise,
\* the fetch or the body read, with an AbortError once the signal is aborted.
Transports == {"respond", "fail", "hang"}

\* the decoded bodies of the calls in flight
CallBodies == {JObj(<<Entry(K_id, JNum(1)), Entry(K_outcomes, JStr(T_Inner))>>)}

\* responses: ok with a JSON body, ok with a body that is not JSON, not ok
Responses ==
    {[ok |-> TRUE, status |-> 200, statusText |-> S_OK, json |-> TRUE, data |-> b] :
        b \in CallBodies}
    \cup {[ok |-> TRUE, status |-> 200, statusText |-> S_OK, json |-> FALSE, data |-> JUndef],
          [ok |-> FALSE, status |-> 404, statusText |-> S_NotFound, json |-> TRUE,
           data |-> JObj(<<>>)]}

NoResponse == [ok |-> FALSE, status |-> 0, statusText |-> <<>>, json |-> FALSE, data |-> JUndef]

Pending == [kind |-> "pending"]

\* the transport has not rejected
NoRejection == [kind |-> "none"]

Returned(v) == [kind |-> "value", value |-> v]

Thrown(name, message) == [kind |-> "error", name |-> name, message |-> message]

\* an error message that leaves the status text out
HttpError_noText(response) ==
    Thrown("Error", S_HTTP \o NumToString(response.status) \o <<":", " ">>)

\* new Error(`HTTP ${response.status}: ${response.statusText}`)
HttpError(response) ==
    Thrown("Error", S_HTTP \o NumToString(response.status) \o <<":", " ">>
                    \o response.statusText)

\* what a signal-honoring transport rejects with once the signal is aborted
AbortError == Thrown("AbortError", <<>>)

\* what a transport rejects with when the connection fails
NetworkError == Thrown("TypeError", <<>>)

\* the failure values a transport rejects the fetch promise with when the
\* connection fails
TransportFailures == {NetworkError}

\* what response.json() rejects with when the body is not JSON
DecodeError == Thrown("SyntaxError", <<>>)

InitCall ==
    /\ tHonors \in BOOLEAN
    /\ cPc = [i \in Calls |-> "idle"]
    /\ cMethod = [i \in Calls |-> "none"]
    /\ cTransport = [i \in Calls |-> "none"]
    /\ cTimer = [i \in Calls |-> "none"]
    /\ cAborted = [i \in Calls |-> FALSE]
    /\ cResponse = [i \in Calls |-> NoResponse]
    /\ cOutcome = [i \in Calls |-> Pending]
    /\ cFetches = [i \in Calls |-> 0]
    /\ cDecodes = [i \in Calls |-> 0]
    /\ cNormalizes = [i \in Calls |-> 0]
    /\ cRejection = [i \in Calls |-> NoRejection]
    /\ cFetchFn = [i \in Calls |-> "none"]

\* a finally block that leaves the timer as it is
ClearTimeout_noop(timer) == timer

\* finally { clearTimeout(timeoutId) }: a timer that already ran is gone
ClearTimeout(timer) == IF timer = "armed" THEN "cleared" ELSE timer

\* the call leaves request / post: its promise settles and the finally
\* block clears its timer
Settle(i, outcome) ==
    /\ cPc' = [cPc EXCEPT ![i] = "done"]
    /\ cOutcome' = [cOutcome EXCEPT ![i] = outcome]
    /\ cTimer' = [cTimer EXCEPT ![i] = ClearTimeout(cTimer[i])]

\* a controller whose signal is aborted from the start
FreshSignal_aborted == TRUE

\* new AbortController().signal.aborted
FreshSignal == FALSE

\* request / post up to the first await: a controller of its own, a timer
\* of its own, and the fetchFn invocation with the controller's signal
StartCall(i, method, transport) ==
    /\ cPc[i] = "idle"
    /\ cPc' = [cPc EXCEPT ![i] = "fetching"]
    /\ cMethod' = [cMethod EXCEPT ![i] = method]
    /\ cTransport' = [cTransport EXCEPT ![i] = transport]
    /\ cAborted' = [cAborted EXCEPT ![i] = FreshSignal]
    /\ cTimer' = [cTimer EXCEPT ![i] = "armed"]
    /\ cFetches' = [cFetches EXCEPT ![i] = @ + 1]
    /\ cFetchFn' = [cFetchFn EXCEPT ![i] = fetchFn]
    /\ UNCHANGED <<tHonors, cResponse, cOutcome, cDecodes, cNormalizes, cRejection,
                   normVars, urlVars, cfgVars>>

\* a callback that names controller.abort without calling it
AbortScope_none(i) == {}

\* one controller shared by the calls of the client
AbortScope_shared(i) == Calls

\* the calls whose controller the timer callback of call i aborts
AbortScope(i) == {i}

\* setTimeout(() => controller.abort(), this.timeout) runs its callback
TimerFire(i) ==
    /\ cTimer[i] = "armed"
    /\ cTimer' = [cTimer EXCEPT ![i] = "fired"]
    /\ cAborted' = [j \in Calls |-> IF j \in AbortScope(i) THEN TRUE ELSE cAborted[j]]
    /\ UNCHANGED <<tHonors, cPc, cMethod, cTransport, cResponse, cOutcome, cFetches,
                   cDecodes, cNormalizes, cRejection, cFetchFn, normVars, urlVars, cfgVars>>

\* a transport that honors the signal no longer resolves once it is aborted
MayResolve(i) == tHonors => ~cAborted[i]

\* a timer that is cleared as soon as the response has arrived
TimerWhileDecoding_cleared(timer) == ClearTimeout(timer)

\* the timer while response.json() is awaited: the await is inside the try
\* block and clearTimeout is called in the finally block only
TimerWhileDecoding(timer) == timer

\* await this.fetchFn(...) resolves; if (!response.ok) throw ...; otherwise
\* response.json() is called and awaited
FetchResolve(i, response) ==
    /\ cPc[i] = "fetching"
    /\ cTransport[i] = "respond"
    /\ MayResolve(i)
    /\ cResponse' = [cResponse EXCEPT ![i] = response]
    /\ IF response.ok
       THEN /\ cPc' = [cPc EXCEPT ![i] = "decoding"]
            /\ cDecodes' = [cDecodes EXCEPT ![i] = @ + 1]
            /\ cTimer' = [cTimer EXCEPT ![i] = TimerWhileDecoding(@)]
            /\ UNCHANGED cOutcome
       ELSE /\ Settle(i, HttpError(response))
            /\ UNCHANGED cDecodes
    /\ UNCHANGED <<tHonors, cMethod, cTransport, cAborted, cFetches, cNormalizes,
                   cRejection, cFetchFn, normVars, urlVars, cfgVars>>

\* a catch block that rethrows a new error carrying only the message
Propagate_wrapped(failure) == Thrown("Error", failure.message)

\* try { ... } finally { ... } has no catch block: what the awaited promise
\* rejected with is what request / post reject with
Propagate(failure) == failure

\* a transport failure answered by invoking the transport a second time
FetchReject_retry(i, failure) ==
    /\ cPc[i] = "fetching"
    /\ cTransport[i] = "fail"
    /\ cFetches[i] < 2
    /\ cFetches' = [cFetches EXCEPT ![i] = @ + 1]
    /\ UNCHANGED <<tHonors, cPc, cMethod, cTransport, cTimer, cAborted, cResponse,
                   cOutcome, cDecodes, cNormalizes, cRejection, cFetchFn,
                   normVars, urlVars, cfgVars>>

\* await this.fetchFn(...) rejects with the transport's own failure
FetchReject(i, failure) ==
    /\ cPc[i] = "fetching"
    /\ cTransport[i] = "fail"
    /\ cRejection' = [cRejection EXCEPT ![i] = failure]
    /\ Settle(i, Propagate(failure))
    /\ UNCHANGED <<tHonors, cMethod, cTransport, cAborted, cResponse, cFetches,
                   cDecodes, cNormalizes, cFetchFn, normVars, urlVars, cfgVars>>

\* a transport that reacts to the aborted signal while the fetch is pending
\* but not while the body is read
AbortReject_fetchOnly(i) ==
    /\ cPc[i] = "fetching"
    /\ tHonors
    /\ cAborted[i]
    /\ cRejection' = [cRejection EXCEPT ![i] = AbortError]
    /\ Settle(i, Propagate(AbortError))
    /\ UNCHANGED <<tHonors, cMethod, cTransport, cAborted, cResponse, cFetches,
                   cDecodes, cNormalizes, cFetchFn, normVars, urlVars, cfgVars>>

\* the transport reacts to the aborted signal: the awaited promise (the
\* fetch or the body read) rejects with the transport's abort failure
AbortReject(i) ==
    /\ cPc[i] \in {"fetching", "decoding"}
    /\ tHonors
    /\ cAborted[i]
    /\ cRejection' = [cRejection EXCEPT ![i] = AbortError]
    /\ Settle(i, Propagate(AbortError))
    /\ UNCHANGED <<tHonors, cMethod, cTransport, cAborted, cResponse, cFetches,
                   cDecodes, cNormalizes, cFetchFn, normVars, urlVars, cfgVars>>

\* this.parseJsonFields(data) for the bodies of the calls in flight, tabulated
NormalizedBody == [data \in CallBodies \cup {JObj(<<>>)} |-> parseJsonFields(data)]

\* request: return this.parseJsonFields(data); post: return the decoded body
CallResult(method, data) == IF method = "GET" THEN NormalizedBody[data] ELSE data

\* a decoding failure replaced by a default value
JsonOutcome_default(method, response) ==
    IF response.json THEN Returned(CallResult(method, response.data)) ELSE Returned(JNull)

\* await response.json(): the decoded body goes on to the return statement,
\* a body that is not JSON makes the awaited promise reject
JsonOutcome(method, response) ==
    IF response.json THEN Returned(CallResult(method, response.data)) ELSE DecodeError

\* await response.json() settles
DecodeSettle(i) ==
    /\ cPc[i] = "decoding"
    /\ MayResolve(i)
    /\ Settle(i, JsonOutcome(cMethod[i], cResponse[i]))
    /\ cNormalizes' = [cNormalizes EXCEPT ![i] =
                           IF cResponse[i].json /\ cMethod[i] = "GET" THEN @ + 1 ELSE @]
    /\ UNCHANGED <<tHonors, cMethod, cTransport, cAborted, cResponse, cFetches,
                   cDecodes, cRejection, cFetchFn, normVars, urlVars, cfgVars>>

NextCall ==
    \/ \E i \in Calls, m \in {"GET", "POST"}, tr \in Transports : StartCall(i, m, tr)
    \/ \E i \in Calls : TimerFire(i)
    \/ \E i \in Calls, r \in Responses : FetchResolve(i, r)
    \/ \E i \in Calls, f \in TransportFailures : FetchReject(i, f)
    \/ \E i \in Calls : AbortReject(i)
    \/ \E i \in Calls : DecodeSettle(i)

\* ------------------------------------------- one accessor call to its end

K_summary == <<"s", "u", "m", "m", "a", "r", "y">>

K_explanation == <<"e", "x", "p", "l", "a", "n", "a", "t", "i", "o", "n">>

\* response.summary / response.explanation on the decoded body: a property
\* read on null throws, on any other value without the property it gives
\* undefined
FieldOf(data, key) ==
    IF data.t = "null" THEN Thrown("TypeError", <<>>)
    ELSE IF data.t = "obj" THEN Returned(Lookup(data, key))
    ELSE Returned(JUndef)

\* an accessor that hands the decoded body of a POST to the normalizer
AccessorResult_allNormalized(op, data) ==
    IF op = "grokEventSummary" THEN FieldOf(parseJsonFields(data), K_summary)
    ELSE IF op = "grokElectionMarketExplanation"
    THEN FieldOf(parseJsonFields(data), K_explanation)
    ELSE Returned(parseJsonFields(data))

\* what the accessor returns once the transport has answered with a success
\* status and a JSON body: request returns this.parseJsonFields(data), post
\* returns the decoded body and the accessor reads one field of it
AccessorResult(op, data) ==
    IF op = "grokEventSummary" THEN FieldOf(data, K_summary)
    ELSE IF op = "grokElectionMarketExplanation" THEN FieldOf(data, K_explanation)
    ELSE Returned(parseJsonFields(data))

\* the transport resolves with a success status and the body decodes to
\* data: the accessor runs to its return statement
AccessorReturn(data) ==
    /\ uPc = "sent"
    /\ uPc' = "returned"
    /\ uData' = data
    /\ uResult' = AccessorResult(uOp, data)
    /\ UNCHANGED <<uOp, uArg, uParams, uMethod, uEndpoint, uQuery, uBody, uUrl, uHeaders,
                   uFetchFn, normVars, callVars, cfgVars>>

\* 'http://h/v1', a base address with a path prefix
PrefixedBaseUrl == <<"h", "t", "t", "p", ":", "/", "/", "h", "/", "v", "1">>

K_Authorization == <<"A", "u", "t", "h", "o", "r", "i", "z", "a", "t", "i", "o", "n">>

S_textPlain == <<"t", "e", "x", "t", "/", "p", "l", "a", "i", "n">>

\* the header mappings passed as config.headers
HeaderConfigs ==
    { JUndef,
      JObj(<<Entry(K_Authorization, <<"t">>)>>),
      JObj(<<Entry(K_ContentType, S_textPlain)>>),
      JObj(<<Entry(K_Authorization, <<"t">>), Entry(K_ContentType, S_textPlain)>>) }

\* what the caller sets on its header mapping after construction
HeaderEdits == {Entry(K_Authorization, <<"x">>)}

\* the configurations passed to the constructor
ClientConfigs ==
    {[baseUrl |-> b, fetch |-> JUndef, headers |-> h] :
        b \in {JUndef, JStr(PrefixedBaseUrl)}, h \in HeaderConfigs}

\* the filters of the list accessors
SampleParams == {JUndef, JObj(<<Entry(K_limit, JNum(10)), Entry(K_tags, JArr(<<JStr(<<"a">>)>>))>>)}

\* slugs handed to the POST accessors: identifiers, and one with a quote
SlugArguments == Identifiers \cup {<<"a", "\"">>}

S_text == <<"o", "k">>

\* the decoded bodies of the answers
AccessorBodies ==
    { JObj(<<Entry(K_summary, JStr(S_text)), Entry(K_explanation, JStr(<<>>))>>),
      JObj(<<Entry(K_summary, JObj(<<Entry(K_outcomes, JStr(T_Inner))>>)),
             Entry(K_explanation, JArr(<<JObj(<<Entry(K_outcomes, JStr(T_Inner))>>)>>))>>),
      JObj(<<Entry(K_id, JNum(1)), Entry(K_outcomes, JStr(T_YesNo))>>),
      JArr(<<JObj(<<Entry(K_id, JNum(1)), Entry(K_outcomes, JStr(T_Inner))>>)>>),
      JObj(<<>>),
      JNull }

NextAccessor ==
    \/ uPc = "idle" /\ \E params \in SampleParams : search(params)
    \/ uPc = "idle" /\ \E id \in Identifiers : getMarket(id)
    \/ uPc = "idle" /\ \E params \in SampleParams : getMarkets(params)
    \/ uPc = "idle" /\ \E id \in Identifiers : getMarketTags(id)
    \/ uPc = "idle" /\ \E id \in Identifiers : getEvent(id)
    \/ uPc = "idle" /\ \E params \in SampleParams : getEvents(params)
    \/ uPc = "idle" /\ \E id \in Identifiers : getEventTags(id)
    \/ uPc = "idle" /\ \E params \in SampleParams : getEventsPaginated(params)
    \/ uPc = "idle" /\ \E params \in SampleParams : getTags(params)
    \/ uPc = "idle" /\ \E id \in Identifiers : getTag(id)
    \/ uPc = "idle" /\ \E id \in Identifiers : getRelatedTags(id)
    \/ uPc = "idle" /\ \E id \in Identifiers : getRelatedTagsTags(id)
    \/ uPc = "idle" /\ \E params \in SampleParams : getTeams(params)
    \/ uPc = "idle" /\ \E params \in SampleParams : getSports(params)
    \/ uPc = "idle" /\ \E params \in SampleParams : getSeries(params)
    \/ uPc = "idle" /\ \E id \in Identifiers : getSeriesById(id)
    \/ uPc = "idle" /\ \E params \in SampleParams : getComments(params)
    \/ uPc = "idle" /\ \E id \in Identifiers : getComment(id)
    \/ uPc = "idle" /\ \E a \in UserAddresses, params \in SampleParams : getCommentsByUser(a, params)
    \/ uPc = "idle" /\ \E slug \in SlugArguments : grokEventSummary(slug)
    \/ uPc = "idle" /\ \E slug \in SlugArguments : grokElectionMarketExplanation(slug)
    \/ uPc = "sent" /\ \E data \in AccessorBodies : AccessorReturn(data)
    \/ uPc = "idle" /\ \E h \in HeaderEdits : MutateHeaders(h.k, h.v)
    \/ uPc = "idle" /\ ReplaceGlobalFetch

\* ----------------------------------------------------------- specifications

\* the configurations of the clients whose concurrent calls are followed:
\* the defaults, with or without a transport override
CallConfigs == {DefaultConfig, [DefaultConfig EXCEPT !.fetch = JStr(ConfigFetch)]}

\* the platform's fetch reacts to the cancellation signal it is given
InitConfig ==
    /\ \E config \in CallConfigs : Constructor(config)
    /\ fetchFn = PlatformFetch => tHonors

Init == InitNorm /\ InitUrl /\ InitCall /\ InitConfig

Next == NextCall

\* concurrent calls on one client
Spec == Init /\ [][Next]_vars

\* a step of a call in flight: its timer callback runs or the promise it
\* awaits is settled by the transport
Progress ==
    \E i \in Calls :
        \/ TimerFire(i)
        \/ \E r \in Responses : FetchResolve(i, r)
        \/ \E f \in TransportFailures : FetchReject(i, f)
        \/ AbortReject(i)
        \/ DecodeSettle(i)

\* Scheduling: the event loop runs an armed timer's callback and delivers
\* every settlement a transport is going to make; no call in flight has more
\* than four such steps, so none of them is postponed forever.
Fairness == WF_vars(Progress)

\* a client that was given a transport of its own, which may or may not
\* react to the cancellation signal (the platform's fetch behaves as one
\* that does)
InitInjected == Init /\ fetchFn = ConfigFetch

FairSpec == InitInjected /\ [][Next]_vars /\ Fairness

\* a client with no call in flight, on a transport that honors the signal
InitIdle == Init /\ tHonors = TRUE /\ fetchFn = PlatformFetch

\* the Field Normalizer applied to decoded bodies
SpecNorm == InitIdle /\ [][NextNorm]_vars

\* the accessors up to the transport call
SpecUrl == InitIdle /\ [][NextUrl]_vars

\* a client constructed with any of the configurations, no call in flight
InitConfigured ==
    /\ InitNorm /\ InitUrl /\ InitCall
    /\ tHonors = TRUE
    /\ \E config \in ClientConfigs : Constructor(config)

\* one accessor call on a configured client, from the call to its return
SpecAccessor == InitConfigured /\ [][NextAccessor]_vars

\* ================================================================== claims

\* the text without the whitespace between its tokens
RECURSIVE Compact(_, _)
Compact(s, inString) ==
    IF s = <<>> THEN <<>>
    ELSE IF Head(s) = " " /\ ~inString THEN Compact(Tail(s), inString)
    ELSE <<Head(s)>> \o Compact(Tail(s), IF Head(s) = "\"" THEN ~inString ELSE inString)

\* the target field names as the specification lists them
ClaimedTargetFields ==
    { K_outcomes, K_outcome_prices, K_outcomePrices, K_clob_token_ids,
      K_clobTokenIds, K_uma_resolution_statuses, K_umaResolutionStatuses }

\* a string that starts with '[' and is a valid JSON array literal
IsArrayLiteral(s) == Len(s) >= 1 /\ s[1] = "[" /\ JSONParse(s).ok

\* a string that starts with '[' but is not valid JSON
IsBrokenLiteral(s) == Len(s) >= 1 /\ s[1] = "[" /\ ~JSONParse(s).ok

\* C1: Field Normalizer idempotence: for every JSON value v, including a
\* target field whose string decodes to an array that itself contains
\* mappings with target-field strings, normalizing the normalized value
\* gives the normalized value again.
C1_Idempotent == nPc = "again" => nAgain = nResult

\* C9: for every target field name whose value is a string that starts with
\* '[' and is a valid JSON array literal, the normalizer replaces the value
\* with the decoded array, elements in the same order: the result under that
\* key is an array whose JSON text is the original text (whitespace between
\* tokens aside).
C9_TargetArrayDecoded ==
    (nPc # "idle" /\ nBody.t = "obj") =>
        \A i \in 1..Len(nBody.o) :
            LET e == nBody.o[i] IN
            (e.k \in ClaimedTargetFields /\ e.v.t = "str" /\ IsArrayLiteral(e.v.s))
            => /\ nResult.t = "obj"
               /\ Lookup(nResult, e.k).t = "arr"
               /\ JSONStringify(Lookup(nResult, e.k)) = Compact(e.v.s, FALSE)

\* C9 case: a camelCase target field holding '["Yes", "No"]' came back as
\* the two-element array
C9_Witness ==
    /\ nPc = "returned"
    /\ nBody = JObj(<<Entry(K_id, JStr(<<"1">>)), Entry(K_clobTokenIds, JStr(T_YesNoSpaced))>>)
    /\ Lookup(nResult, K_clobTokenIds)
         = JArr(<<JStr(<<"Y", "e", "s">>), JStr(<<"N", "o">>)>>)

\* C10: for a target field whose string value starts with '[' but is not
\* valid JSON, the normalizer returns the original string unchanged under
\* the same key and does not raise: the call returns a record, and every
\* other field of the record is normalized as it is on its own.
C10_BrokenLiteralKept ==
    (nPc # "idle" /\ nBody.t = "obj"
       /\ \E i \in 1..Len(nBody.o) :
             /\ nBody.o[i].k \in ClaimedTargetFields
             /\ nBody.o[i].v.t = "str"
             /\ IsBrokenLiteral(nBody.o[i].v.s))
    => /\ nResult.t = "obj"
       /\ Len(nResult.o) = Len(nBody.o)
       /\ \A i \in 1..Len(nBody.o) :
            LET e == nBody.o[i] IN
            /\ nResult.o[i].k = e.k
            /\ IF e.k \in ClaimedTargetFields /\ e.v.t = "str" /\ IsBrokenLiteral(e.v.s)
               THEN nResult.o[i].v = e.v
               ELSE nResult.o[i].v = Lookup(parseJsonFields(JObj(<<e>>)), e.k)

\* C10 case: '[1,2' stayed a string while the price field next to it was
\* decoded
C10_Witness ==
    /\ nPc = "returned"
    /\ nBody = JObj(<<Entry(K_outcomes, JStr(<<"[", "1", ",", "2">>)),
                      Entry(K_outcomePrices, JStr(T_Prices))>>)
    /\ nResult.o[1] = Entry(K_outcomes, JStr(<<"[", "1", ",", "2">>))
    /\ nResult.o[2].v = JArr(<<JStr(<<"0", ".", "5">>), JStr(<<"0", ".", "5">>)>>)

\* an identifier containing at least one hyphen
HasHyphen(id) == \E i \in 1..Len(id) : id[i] = "-"

S_slugSlash == <<"s", "l", "u", "g", "/">>

\* the endpoint family of an accessor that takes an "ID or slug" identifier
Family(op) ==
    CASE op = "getMarket" -> P_marketsSlash
      [] op = "getEvent" -> P_eventsSlash
      [] op \in {"getTag", "getRelatedTags", "getRelatedTagsTags"} -> P_tagsSlash

\* what follows the identifier in the accessor's path
Suffix(op) ==
    CASE op = "getRelatedTags" -> P_relatedTags
      [] op = "getRelatedTagsTags" -> P_relatedTagsTags
      [] OTHER -> <<>>

\* the '.../slug/<id>' form and the '.../<id>' form
SlugForm(op, id) == Family(op) \o S_slugSlash \o id \o Suffix(op)

PlainForm(op, id) == Family(op) \o id \o Suffix(op)

\* the identifier is routed by the hyphen rule, to exactly one of the forms
RoutedByHyphen(op, id, endpoint) ==
    /\ HasHyphen(id) => (endpoint = SlugForm(op, id) /\ endpoint # PlainForm(op, id))
    /\ ~HasHyphen(id) => (endpoint = PlainForm(op, id) /\ endpoint # SlugForm(op, id))

\* C2: hyphen dispatch in getMarket, getEvent, getRelatedTags and
\* getRelatedTagsTags: an identifier with a hyphen is requested in the
\* '.../slug/<id>' form, an identifier without one in the '.../<id>' form,
\* never both and never neither.
C2_HyphenDispatch ==
    (uPc = "sent"
       /\ uOp \in {"getMarket", "getEvent", "getRelatedTags", "getRelatedTagsTags"})
    => /\ uMethod = "GET"
       /\ RoutedByHyphen(uOp, uArg.s, uEndpoint)

\* C2 case: getRelatedTags('a-1') asked for /tags/slug/a-1/related-tags
C2_Witness ==
    /\ uPc = "sent"
    /\ uOp = "getRelatedTags"
    /\ uArg = JStr(<<"a", "-", "1">>)
    /\ uEndpoint = <<"/", "t", "a", "g", "s", "/", "s", "l", "u", "g", "/", "a", "-", "1", "/", "r", "e", "l", "a", "t", "e", "d", "-", "t", "a", "g", "s">>

\* C3: the hyphen dispatch rule is used by every accessor that takes an
\* 'ID or slug' identifier, getTag included: a hyphenated identifier goes to
\* a '.../slug/<value>' path and any other identifier to a '.../<value>' path.
C3_DispatchThroughout ==
    (uPc = "sent"
       /\ uOp \in {"getMarket", "getEvent", "getTag", "getRelatedTags",
                   "getRelatedTagsTags"})
    => RoutedByHyphen(uOp, uArg.s, uEndpoint)

\* an unset parameter value
IsUnset(v) == v.t \in {"undef", "null"}

\* the query entries appended under a key, in order
EntriesFor(query, key) == SelectSeq(query, LAMBDA e : e.k = key)

KeyOccurs(query, key) == \E i \in 1..Len(query) : query[i].k = key

\* C6: a parameter whose value is unset (undefined or null) contributes no
\* entry to the query string, while every parameter with a present value
\* does occur in it.
C6_UnsetOmittedPresentOccurs ==
    (uPc = "sent" /\ uParams.t = "obj") =>
        \A i \in 1..Len(uParams.o) :
            LET p == uParams.o[i] IN
            KeyOccurs(uQuery, p.k) <=> ~IsUnset(p.v)

\* C6 as amended: an unset parameter, like an empty sequence, contributes no
\* entry; every parameter with a present scalar value or a non-empty sequence
\* value does occur.
C6_UnsetOmitted ==
    (uPc = "sent" /\ uParams.t = "obj") =>
        \A i \in 1..Len(uParams.o) :
            LET p == uParams.o[i] IN
            KeyOccurs(uQuery, p.k) <=> ~(IsUnset(p.v) \/ (p.v.t = "arr" /\ p.v.a = <<>>))

\* C6 case: getMarkets({limit: null, tags: ['b', 'a', 'b']}) asked for tags only
C6_Witness ==
    /\ uPc = "sent"
    /\ uOp = "getMarkets"
    /\ uParams = JObj(<<Entry(K_limit, JNull),
                        Entry(K_tags, JArr(<<JStr(<<"b">>), JStr(<<"a">>), JStr(<<"b">>)>>))>>)
    /\ ~KeyOccurs(uQuery, K_limit)
    /\ KeyOccurs(uQuery, K_tags)

\* C7: absent values, unset or empty, are omitted entirely: the constructed
\* query string contains no entry whose value is the empty string.
C7_NoEmptyEntries ==
    uPc = "sent" => \A i \in 1..Len(uQuery) : uQuery[i].v # <<>>

\* the position of a key in the parameter mapping
KeyIndex(params, key) == CHOOSE i \in 1..Len(params.o) : params.o[i].k = key

\* C8: a sequence-valued parameter of length N appears as exactly N entries
\* under its key, in element order (none for an empty sequence); a present
\* scalar parameter appears as exactly one entry holding the value's string
\* form; entries of different keys follow the mapping's key order.
C8_EntriesPerElement ==
    (uPc = "sent" /\ uParams.t = "obj") =>
        /\ \A i \in 1..Len(uParams.o) :
             LET p == uParams.o[i]
                 es == EntriesFor(uQuery, p.k)
             IN  /\ p.v.t = "arr" =>
                       /\ Len(es) = Len(p.v.a)
                       /\ \A j \in 1..Len(es) : es[j].v = StringOf(p.v.a[j])
                 /\ (~IsUnset(p.v) /\ p.v.t # "arr") =>
                       es = <<Entry(p.k, StringOf(p.v))>>
        /\ \A a, b \in 1..Len(uQuery) :
             /\ KeyOccurs(uParams.o, uQuery[a].k)
             /\ a < b => KeyIndex(uParams, uQuery[a].k) <= KeyIndex(uParams, uQuery[b].k)

\* C8 case: getEvents({tags: ['b', 'a', 'b'], limit: 10}) asked for
\* tags=b, tags=a, tags=b, limit=10
C8_Witness ==
    /\ uPc = "sent"
    /\ uOp = "getEvents"
    /\ uParams = JObj(<<Entry(K_tags, JArr(<<JStr(<<"b">>), JStr(<<"a">>), JStr(<<"b">>)>>)),
                        Entry(K_limit, JNum(10))>>)
    /\ uQuery = <<Entry(K_tags, <<"b">>), Entry(K_tags, <<"a">>), Entry(K_tags, <<"b">>),
                  Entry(K_limit, <<"1", "0">>)>>

\* the transport of the call does not resolve within the timeout: it never
\* resolves the fetch, or the timer ran while the fetch it is going to
\* resolve was still pending
NoResolveInTime(i) ==
    \/ cPc[i] # "idle" /\ cTransport[i] = "hang"
    \/ cPc[i] = "fetching" /\ cAborted[i] /\ cTransport[i] = "respond"

\* the call failed with the timeout failure, which differs from the failure
\* of a broken connection
TimedOut(i) == cOutcome[i] = AbortError /\ cOutcome[i] \notin TransportFailures

CallState(i) ==
    <<cPc[i], cMethod[i], cTransport[i], cTimer[i], cAborted[i], cResponse[i],
      cOutcome[i], cFetches[i], cDecodes[i], cNormalizes[i], cRejection[i]>>

\* the outcome of a settled call as its own method, transport and response
\* determine it
OwnOutcome(i) ==
    \/ /\ cOutcome[i] = AbortError
       /\ tHonors /\ cTimer[i] = "fired"
    \/ /\ cOutcome[i] \in TransportFailures
       /\ cTransport[i] = "fail"
    \/ /\ cOutcome[i] = HttpError(cResponse[i])
       /\ cResponse[i] \in Responses /\ ~cResponse[i].ok
    \/ /\ cOutcome[i] = DecodeError
       /\ cResponse[i] \in Responses /\ cResponse[i].ok /\ ~cResponse[i].json
    \/ /\ cOutcome[i].kind = "value"
       /\ cResponse[i] \in Responses /\ cResponse[i].ok /\ cResponse[i].json
       /\ cOutcome[i].value = IF cMethod[i] = "GET" THEN parseJsonFields(cResponse[i].data)
                              ELSE cResponse[i].data

\* C5: per-call cancellation scope: in any interleaving of concurrent calls
\* the timer expiry or cancellation of one call never aborts the signal of,
\* changes the outcome of, or clears the timer of another call: a signal is
\* aborted only by its own call's timer, a step of one call leaves every
\* other call as it was, and a settled call's result is the one its own
\* arguments and its own transport response determine.
C5_PerCallScope ==
    /\ [](\A i \in Calls :
            /\ cAborted[i] => cTimer[i] = "fired"
            /\ cPc[i] = "done" => OwnOutcome(i))
    /\ [][\A i, j \in Calls :
            (i # j /\ CallState(i)' # CallState(i)) => CallState(j)' = CallState(j)]_vars

\* C5 case: one call timed out and failed while a concurrent call, its
\* signal never aborted and its timer cleared, returned its value
C5_Witness ==
    \E i, j \in Calls :
        /\ i # j
        /\ cAborted[i] /\ cOutcome[i] = AbortError
        /\ ~cAborted[j] /\ cTimer[j] = "cleared" /\ cOutcome[j].kind = "value"

\* the error message of the not-ok response, written out
M_404 ==
    <<"H", "T", "T", "P", " ", "4", "0", "4", ":", " ", "N", "o", "t", " ", "F", "o", "u", "n", "d">>

\* C11: when the transport resolves with a non-success status, the call,
\* GET or POST, has failed with an Error whose message is exactly
\* 'HTTP <status>: <statusText>', and response.json() and parseJsonFields
\* have not been invoked for it.
C11_HttpStatusFailure ==
    \A i \in Calls :
        (cResponse[i] # NoResponse /\ ~cResponse[i].ok) =>
            /\ cPc[i] = "done"
            /\ cResponse[i].status = 404
            /\ cResponse[i].statusText = S_NotFound
            /\ cOutcome[i] = Thrown("Error", M_404)
            /\ cDecodes[i] = 0
            /\ cNormalizes[i] = 0

\* C11 case: a POST call and a GET call that received status 404 with
\* reason 'Not Found' have both failed with 'HTTP 404: Not Found'
C11_Witness ==
    \E i, j \in Calls :
        /\ cMethod[i] = "POST" /\ cResponse[i].status = 404
        /\ cOutcome[i] = Thrown("Error", M_404)
        /\ cMethod[j] = "GET" /\ cResponse[j].status = 404
        /\ cOutcome[j] = Thrown("Error", M_404)

\* the call has settled with a failure
Failed(i) == cPc[i] = "done" /\ cOutcome[i].kind = "error"

\* C14: every invocation invokes the configured transport, config.fetch
\* when one was supplied and the platform's fetch otherwise, exactly once
\* whatever the outcome: a call that has started has made one fetchFn
\* invocation, on the client's fetchFn, and never makes a second one, also
\* after a transport failure, HTTP status failure, timeout or decode failure.
C14_OneTransportCall ==
    \A i \in Calls :
        /\ cPc[i] = "idle" => cFetches[i] = 0
        /\ cPc[i] # "idle" =>
              /\ cFetches[i] = 1
              /\ cFetchFn[i] = fetchFn
              /\ fetchFn \in {PlatformFetch, ConfigFetch}

\* C14 case: on a client with a transport override one call has failed with
\* the transport's failure and another with the timeout failure, each after
\* one invocation of the override
C14_Witness ==
    \E i, j \in Calls :
        /\ fetchFn = ConfigFetch
        /\ Failed(i) /\ cOutcome[i] \in TransportFailures
        /\ Failed(j) /\ cOutcome[j] = AbortError
        /\ cFetches[i] = 1 /\ cFetches[j] = 1
        /\ cFetchFn[i] = ConfigFetch

\* C12: when the transport call itself rejects, request and post, which the
\* accessors return unchanged, reject with that same failure value, neither
\* wrapped nor modified, for GET and POST calls alike.
C12_TransportFailureUnchanged ==
    \A i \in Calls :
        cRejection[i] # NoRejection =>
            /\ cPc[i] = "done"
            /\ cOutcome[i] = cRejection[i]

\* C12 case: a GET call and a POST call whose transport rejected with its
\* connection failure both failed with that TypeError
C12_Witness ==
    \E i, j \in Calls :
        /\ cMethod[i] = "GET" /\ cMethod[j] = "POST"
        /\ cTransport[i] = "fail" /\ cTransport[j] = "fail"
        /\ cRejection[i] = NetworkError /\ cRejection[j] = NetworkError
        /\ cOutcome[i] = Thrown("TypeError", <<>>)
        /\ cOutcome[j] = Thrown("TypeError", <<>>)

\* C13: when the transport resolves with a success status and decoding the
\* body as JSON fails, the call fails with the decode failure: it never
\* returns a value, and unless the transport aborted the body read it has
\* failed with the SyntaxError of response.json().
C13_DecodeFailureFatal ==
    \A i \in Calls :
        (cResponse[i].ok /\ ~cResponse[i].json) =>
            /\ cOutcome[i].kind # "value"
            /\ (cPc[i] = "done" /\ cRejection[i] = NoRejection) =>
                   cOutcome[i] = Thrown("SyntaxError", <<>>)

\* C13 case: a GET call and a POST call that received status 200 with a
\* body that is not JSON have both failed with the SyntaxError
C13_Witness ==
    \E i, j \in Calls :
        /\ cMethod[i] = "GET" /\ cMethod[j] = "POST"
        /\ cResponse[i].status = 200 /\ ~cResponse[i].json
        /\ cResponse[j].status = 200 /\ ~cResponse[j].json
        /\ cDecodes[i] = 1 /\ cDecodes[j] = 1
        /\ cOutcome[i] = DecodeError /\ cOutcome[j] = DecodeError

\* a record with an id and an 'outcomes' field holding the text
OutcomesRecord(text) == JObj(<<Entry(K_id, JNum(1)), Entry(K_outcomes, JStr(text))>>)

\* C16: normalizing a list of records transforms each record independently:
\* the result is a list of the same length whose i-th element is what the
\* normalizer returns for the i-th record alone, whatever the other records
\* are, also when the target field of another record fails to parse.
C16_RecordsIndependent ==
    (nPc # "idle" /\ nBody.t = "arr") =>
        /\ nResult.t = "arr"
        /\ Len(nResult.a) = Len(nBody.a)
        /\ \A i \in 1..Len(nBody.a) :
              /\ nResult.a[i] = parseJsonFields(nBody.a[i])
              /\ nResult.a[i] = parseJsonFields(JArr(<<nBody.a[i]>>)).a[1]
              /\ Lookup(nResult.a[i], K_id) = Lookup(nBody.a[i], K_id)

\* C16 case: in a list of two records the second, after a first record
\* whose 'outcomes' text '[1,2' does not parse, has its 'outcomes' decoded
\* to ["Yes","No"], and the first record is returned as it came
C16_Witness ==
    /\ nPc = "returned"
    /\ nBody = JArr(<<OutcomesRecord(<<"[", "1", ",", "2">>), OutcomesRecord(T_YesNo)>>)
    /\ nResult.a[1] = nBody.a[1]
    /\ Lookup(nResult.a[2], K_outcomes) = JArr(<<JStr(<<"Y", "e", "s">>), JStr(<<"N", "o">>)>>)

\* a non-string scalar
IsOtherScalar(v) == v.t \in {"null", "bool", "num"}

\* C19: the normalizer converts only by exact target-key match: a string
\* starting with '[' under any non-target key, a target-key string that
\* does not start with '[' (one with leading whitespace included), and any
\* non-string scalar under a target key are all returned unchanged, under
\* the same key at the same position.
C19_OnlyTargetStringsConverted ==
    (nPc # "idle" /\ nBody.t = "obj") =>
        \A i \in 1..Len(nBody.o) :
            LET e == nBody.o[i] IN
            (\/ e.k \notin ClaimedTargetFields /\ e.v.t = "str"
             \/ e.k \in ClaimedTargetFields /\ e.v.t = "str"
                  /\ (e.v.s = <<>> \/ Head(e.v.s) # "[")
             \/ e.k \in ClaimedTargetFields /\ IsOtherScalar(e.v))
            => /\ nResult.t = "obj"
               /\ Len(nResult.o) >= i
               /\ nResult.o[i] = e

\* the keys of a mapping
KeysOf(obj) == {obj.o[i].k : i \in 1..Len(obj.o)}

\* out has the shape of in: the same key set at every mapping, the same
\* length and order at every sequence, equal scalars, and no difference
\* other than a target-key string replaced by the array it decodes to
RECURSIVE SameShape(_, _)
SameShape(in, out) ==
    IF in.t = "arr"
    THEN /\ out.t = "arr"
         /\ Len(out.a) = Len(in.a)
         /\ \A i \in 1..Len(in.a) : SameShape(in.a[i], out.a[i])
    ELSE IF in.t = "obj"
    THEN /\ out.t = "obj"
         /\ Len(out.o) = Len(in.o)
         /\ KeysOf(out) = KeysOf(in)
         /\ \A i \in 1..Len(in.o) :
              LET e == in.o[i]
                  w == Lookup(out, e.k)
              IN  IF e.k \in ClaimedTargetFields /\ e.v.t = "str" /\ w # e.v
                  THEN /\ IsArrayLiteral(e.v.s)
                       /\ w = JSONParse(e.v.s).val
                       /\ w.t = "arr"
                  ELSE SameShape(e.v, w)
    ELSE out = in

\* C20: shape preservation: for every JSON value the normalizer's output
\* has at every mapping exactly the input's key set, at every sequence the
\* input's length and element order, and scalars equal to the input's; the
\* only positions that differ are target-key strings replaced by their
\* decoded arrays.
C20_ShapePreserved == nPc # "idle" => SameShape(nBody, nResult)

\* the header mapping as a record value
HeaderMap == JObj(uHeaders)

\* C15: the headers of every request, GET and POST, are the baseline
\* {'Content-Type': 'application/json'} overlaid with the configured default
\* headers: without custom headers the mapping is exactly the baseline,
\* every custom header is present with its configured value, no other
\* header is present, and a custom 'Content-Type' replaces the baseline
\* value.
C15_HeadersOverlay ==
    uPc # "idle" =>
        /\ customHeaders = <<>> => uHeaders = <<Entry(K_ContentType, S_applicationJson)>>
        /\ \A i \in 1..Len(customHeaders) :
              Lookup(HeaderMap, customHeaders[i].k) = customHeaders[i].v
        /\ KeysOf(HeaderMap) = {K_ContentType} \cup KeysOf(JObj(customHeaders))
        /\ Len(uHeaders) = Cardinality(KeysOf(HeaderMap))
        /\ K_ContentType \notin KeysOf(JObj(customHeaders)) =>
              Lookup(HeaderMap, K_ContentType) = S_applicationJson

\* C15 case: the POST request of a client configured with Authorization
\* and Content-Type: text/plain carries both, the custom Content-Type in
\* place of the baseline
C15_Witness ==
    /\ uPc = "sent"
    /\ uOp = "grokEventSummary"
    /\ uMethod = "POST"
    /\ customHeaders = <<Entry(K_Authorization, <<"t">>), Entry(K_ContentType, S_textPlain)>>
    /\ uHeaders = <<Entry(K_ContentType, S_textPlain), Entry(K_Authorization, <<"t">>)>>

\* the address, body key and result field of the two POST accessors
PostAddress(op) == IF op = "grokEventSummary" THEN U_grokEventSummary ELSE U_grokElection

PostKey(op) == IF op = "grokEventSummary" THEN K_event_slug ELSE K_market_slug

PostField(op) == IF op = "grokEventSummary" THEN K_summary ELSE K_explanation

PostOps == {"grokEventSummary", "grokElectionMarketExplanation"}

\* the text of a JSON string literal for the slugs in use
SlugLiteral(slug) ==
    <<"\"">> \o (IF slug = <<"a", "\"">> THEN <<"a", "\\", "\"">> ELSE slug) \o <<"\"">>

\* C17: grokEventSummary and grokElectionMarketExplanation each issue a
\* POST to their fixed absolute address, whatever the configured base
\* address, with the body {event_slug: <arg>} respectively
\* {market_slug: <arg>} serialized as JSON, and return the 'summary'
\* respectively 'explanation' field of the decoded response (undefined when
\* the decoded value has no such field; a decoded null has no fields to read).
C17_GrokPost ==
    (uPc # "idle" /\ uOp \in PostOps) =>
        /\ uMethod = "POST"
        /\ uUrl = PostAddress(uOp)
        /\ uQuery = <<>>
        /\ uBody = JStr(<<"{">> \o SlugLiteral(PostKey(uOp)) \o <<":">>
                         \o SlugLiteral(uArg.s) \o <<"}">>)
        /\ JSONParse(uBody.s).val = JObj(<<Entry(PostKey(uOp), uArg)>>)
        /\ (uPc = "returned" /\ uData.t = "obj") =>
               uResult = Returned(Lookup(uData, PostField(uOp)))
        /\ (uPc = "returned" /\ uData.t = "arr") => uResult = Returned(JUndef)

\* C17 case: on a client whose base address is 'http://h/v1',
\* grokEventSummary('a"') posted {"event_slug":"a\""} to
\* https://polymarket.com/api/grok/event-summary and returned the summary
\* text of the answer
C17_Witness ==
    /\ uPc = "returned"
    /\ uOp = "grokEventSummary"
    /\ baseUrl = PrefixedBaseUrl
    /\ uArg = JStr(<<"a", "\"">>)
    /\ uUrl = U_grokEventSummary
    /\ uBody = JStr(<<"{", "\"", "e", "v", "e", "n", "t", "_", "s", "l", "u", "g", "\"", ":", "\"", "a", "\\", "\"", "\"", "}">>)
    /\ uResult = Returned(JStr(S_text))

\* C18: for every accessor, GET and POST alike, a successful call returns
\* the Field Normalizer's output on the decoded response body: a GET
\* accessor the normalized body, a POST accessor its field of the
\* normalized body; nothing returned has bypassed normalization.
C18_AlwaysNormalized ==
    uPc = "returned" =>
        LET n == parseJsonFields(uData) IN
        /\ uOp \notin PostOps => uResult = Returned(n)
        /\ (uOp \in PostOps /\ uData.t = "obj") =>
              uResult = Returned(Lookup(n, PostField(uOp)))

\* C18 as amended: a successful GET accessor returns the Field Normalizer's
\* output on the decoded body; the two POST accessors return their field of
\* the decoded body as it was decoded, without normalization.
C18_GetNormalizedPostRaw ==
    uPc = "returned" =>
        /\ uOp \notin PostOps =>
              /\ uMethod = "GET"
              /\ uResult = Returned(parseJsonFields(uData))
        /\ (uOp \in PostOps /\ uData.t = "obj") =>
              /\ uMethod = "POST"
              /\ uResult = Returned(Lookup(uData, PostField(uOp)))

\* C18 case: grokEventSummary, answered with a summary that is a mapping,
\* returned it with its 'outcomes' still the string '[1]', which the
\* normalizer would have decoded
C18_Witness ==
    /\ uPc = "returned"
    /\ uOp = "grokEventSummary"
    /\ uData.t = "obj"
    /\ Lookup(uData, K_summary) = JObj(<<Entry(K_outcomes, JStr(T_Inner))>>)
    /\ uResult = Returned(JObj(<<Entry(K_outcomes, JStr(T_Inner))>>))
    /\ parseJsonFields(uResult.value) # uResult.value

\* a target-key string of in that decodes to an array has been replaced in
\* out by that array, at every mapping of in: the mappings in.a[i] of a
\* sequence, and the mappings in.o[i].v held under the keys of a mapping
RECURSIVE ConvertedThroughout(_, _)
ConvertedThroughout(in, out) ==
    IF in.t = "arr"
    THEN /\ out.t = "arr"
         /\ Len(out.a) = Len(in.a)
         /\ \A i \in 1..Len(in.a) : ConvertedThroughout(in.a[i], out.a[i])
    ELSE IF in.t = "obj"
    THEN /\ out.t = "obj"
         /\ \A i \in 1..Len(in.o) :
              LET e == in.o[i]
                  w == Lookup(out, e.k)
              IN  IF e.k \in ClaimedTargetFields /\ e.v.t = "str"
                  THEN IsArrayLiteral(e.v.s) =>
                           (w.t = "arr" /\ w = JSONParse(e.v.s).val)
                  ELSE IsObjectLike(e.v) => ConvertedThroughout(e.v, w)
    ELSE TRUE

\* C21: target fields are converted at every nesting depth of the decoded
\* body: a target-key JSON-array string inside a mapping reached through any
\* chain of mappings and sequences (data[i].markets[j].outcomes of a
\* paginated response) is replaced by its decoded array.
C21_ConvertedAtEveryDepth == nPc # "idle" => ConvertedThroughout(nBody, nResult)

InFlight(i) == cPc[i] \in {"fetching", "decoding"}

\* C23: when a call's timer elapses before the call has completed, the
\* signal passed to that call's transport invocation becomes aborted; the
\* signal is not aborted at the moment the transport is invoked, and nothing
\* other than the call's own timer aborts it: a signal turns aborted only in
\* the step in which its own call's timer runs.
C23_TimerAbortsOwnSignal ==
    /\ [](\A i \in Calls : (InFlight(i) /\ cTimer[i] = "fired") => cAborted[i])
    /\ [][\A i \in Calls :
            /\ (cPc[i] = "idle" /\ cPc'[i] # "idle") =>
                   /\ cFetches'[i] = cFetches[i] + 1
                   /\ ~cAborted'[i]
            /\ (cTimer[i] = "armed" /\ cTimer'[i] = "fired") =>
                   /\ InFlight(i)
                   /\ cAborted'[i]
            /\ (~cAborted[i] /\ cAborted'[i]) =>
                   /\ cTimer[i] = "armed"
                   /\ cTimer'[i] = "fired"]_vars

\* C23 case: the timer of one call has run while its fetch was pending and
\* its signal is aborted, while the signal of a concurrent call in flight,
\* whose timer has not run, is not
C23_Witness ==
    \E i, j \in Calls :
        /\ i # j
        /\ cPc[i] = "fetching" /\ cTimer[i] = "fired" /\ cAborted[i]
        /\ cPc[j] = "fetching" /\ cTimer[j] = "armed" /\ ~cAborted[j]

\* C24: the timeout scope covers both suspension points: the call's timer
\* is armed before the transport invocation and is not cleared until the
\* call settles, so that it can still run while the body is being decoded,
\* and when it does the call's signal is aborted although a success status
\* was already received.
C24_TimerCoversDecoding ==
    /\ [](\A i \in Calls :
            /\ InFlight(i) => cTimer[i] \in {"armed", "fired"}
            /\ (cPc[i] = "decoding" /\ cTimer[i] = "armed") => ENABLED TimerFire(i))
    /\ [][\A i \in Calls :
            (cPc[i] = "decoding" /\ cTimer[i] = "armed" /\ cTimer'[i] = "fired") =>
                /\ cResponse[i].ok
                /\ cAborted'[i]
                /\ cPc'[i] = "decoding"]_vars

\* C24 case: a GET call received status 200, its timer ran while the body
\* was being read, and the signal-honoring transport rejected the body read:
\* the call failed with the abort failure after one response.json() call
C24_Witness ==
    \E i \in Calls :
        /\ tHonors
        /\ cMethod[i] = "GET"
        /\ cResponse[i].status = 200
        /\ cDecodes[i] = 1
        /\ cTimer[i] = "fired"
        /\ cAborted[i]
        /\ cPc[i] = "done"
        /\ cOutcome[i] = AbortError

\* the call has settled in one of the four ways that need no timer: with a
\* value, an HTTP status failure, a transport failure or a decode failure
SettledOnItsOwn(i) ==
    /\ cPc[i] = "done"
    /\ \/ cOutcome[i].kind = "value"
       \/ cOutcome[i] = HttpError(cResponse[i])
       \/ cOutcome[i] \in TransportFailures
       \/ cOutcome[i] = DecodeError

\* C25: timer cleanup on every path: once a call has settled by success,
\* HTTP status failure, transport failure or decode failure its timer is no
\* longer pending (it was cleared, unless it had already run), and for a
\* settled call of any outcome no timer runs and no abort is triggered
\* afterwards.
C25_TimerClearedOnEveryPath ==
    /\ [](\A i \in Calls :
            /\ SettledOnItsOwn(i) =>
                  /\ cTimer[i] \in {"cleared", "fired"}
                  /\ ~cAborted[i] => cTimer[i] = "cleared"
            /\ cPc[i] = "done" =>
                  /\ cTimer[i] # "armed"
                  /\ ~ENABLED TimerFire(i))
    /\ [][\A i \in Calls :
            cPc[i] = "done" =>
                /\ cAborted'[i] = cAborted[i]
                /\ cTimer'[i] = cTimer[i]
                /\ cOutcome'[i] = cOutcome[i]]_vars

\* C25 case: one call has failed with the transport's failure and a
\* concurrent POST call with the decode failure; the timers of both are
\* cleared and neither signal was aborted
C25_Witness ==
    \E i, j \in Calls :
        /\ SettledOnItsOwn(i) /\ cOutcome[i] = NetworkError
        /\ SettledOnItsOwn(j) /\ cOutcome[j] = DecodeError /\ cMethod[j] = "POST"
        /\ cTimer[i] = "cleared" /\ cTimer[j] = "cleared"
        /\ ~cAborted[i] /\ ~cAborted[j]

\* the classes of outcome the settled call's outcome belongs to
OutcomeClasses(i) ==
    {c \in {"value", "status", "transport", "timeout", "decode"} :
        \/ c = "value" /\ cOutcome[i].kind = "value"
        \/ c = "status" /\ cOutcome[i] = HttpError(cResponse[i])
        \/ c = "transport" /\ cOutcome[i] \in TransportFailures
        \/ c = "timeout" /\ cOutcome[i] = AbortError
        \/ c = "decode" /\ cOutcome[i] = DecodeError}

QueryString(query) == IF query = <<>> THEN <<>> ELSE <<"?">> \o SerializeQuery(query)

\* C27: the path of a GET accessor is relative to the configured base
\* address: for every configured base address, one with a path prefix of
\* its own included, the URL handed to the transport is the base address
\* followed by the accessor's path and query string.
C27_PathUnderBase ==
    (uPc # "idle" /\ uMethod = "GET") =>
        uUrl = baseUrl \o uEndpoint \o QueryString(uQuery)

\* the character c occurs in s this many times
Count(s, c) == Cardinality({i \in 1..Len(s) : s[i] = c})

\* p is a prefix of s
HasPrefix(s, p) == Len(s) >= Len(p) /\ SubSeq(s, 1, Len(p)) = p

\* the path of an absolute URL: from the end of the origin to the first '?'
\* or '#'
RequestPath(url) ==
    LET r == SubSeq(url, Len(Origin(url)) + 1, Len(url))
    IN  SubSeq(r, 1, FirstOf(r, {"?", "#"}, 1) - 1)

\* the query text of an absolute URL: between the first '?' and the first
\* '#' (empty when the URL has no query)
RequestQuery(url) ==
    LET q == FirstOf(url, {"?", "#"}, 1)
    IN  IF q <= Len(url) /\ url[q] = "?"
        THEN SubSeq(url, q + 1, FirstOf(url, {"#"}, 1) - 1)
        ELSE <<>>

\* the accessors that put an identifier into the path
IdentifierOps ==
    { "getMarket", "getMarketTags", "getEvent", "getEventTags", "getTag",
      "getRelatedTags", "getRelatedTagsTags", "getSeriesById", "getComment",
      "getCommentsByUser" }

\* the endpoint family an accessor names
EndpointFamily(op) ==
    CASE op \in {"getMarket", "getMarketTags"} -> P_marketsSlash
      [] op \in {"getEvent", "getEventTags"} -> P_eventsSlash
      [] op \in {"getTag", "getRelatedTags", "getRelatedTagsTags"} -> P_tagsSlash
      [] op = "getSeriesById" -> P_seriesSlash
      [] op = "getComment" -> P_commentsSlash
      [] op = "getCommentsByUser" -> P_commentsUser

\* C28: a caller-supplied identifier only fills its own path segment: for
\* every identifier string, those containing '/', '..', '?' or '#' included,
\* the path of the requested URL is under the accessor's endpoint family, it
\* has the segments of the accessor's path and no more, and the query holds
\* the entries of the accessor's parameters and no other.
C28_IdentifierInOwnSegment ==
    (uPc = "sent" /\ uOp \in IdentifierOps) =>
        /\ HasPrefix(RequestPath(uUrl), EndpointFamily(uOp))
        /\ Count(RequestPath(uUrl), "/") = Count(uEndpoint, "/") - Count(uArg.s, "/")
        /\ RequestQuery(uUrl) = SerializeQuery(uQuery)

\* the configuration values the constructor was given, defaults filled in
GivenBaseUrl == Coalesce(givenConfig.baseUrl, JStr(DefaultBaseUrl)).s

GivenFetch == IF givenConfig.fetch = JUndef THEN PlatformFetch ELSE givenConfig.fetch.s

GivenHeaders == Coalesce(givenConfig.headers, JObj(<<>>)).o

\* C29: the client configuration is immutable after construction: the base
\* address, transport and default headers the client holds, and those used
\* by any later call, are the ones given at construction, also after the
\* caller has changed the header mapping it passed in or globalThis.fetch
\* has been replaced.
C29_ConfigImmutable ==
    /\ baseUrl = GivenBaseUrl
    /\ fetchFn = GivenFetch
    /\ customHeaders = GivenHeaders
    /\ uPc # "idle" =>
          /\ uFetchFn = GivenFetch
          /\ uHeaders = RequestHeaders(GivenHeaders)
          /\ uMethod = "GET" => HasPrefix(uUrl, Origin(GivenBaseUrl))

====
